---- MODULE Spec2Model ----
(***************************************************************************)
(* Visualization core of easy-voice-memos: the shared ViewportState        *)
(* (zoom/pan), the SpectrogramWorker background thread, the on-disk         *)
(* spectrogram cache and the PlaybackController that owns the worker.      *)
(*                                                                         *)
(* Floating point values (zoom, pan, normalized time) are modelled as      *)
(* exact rationals <<n, d>> in lowest terms with d > 0.                    *)
(***************************************************************************)
EXTENDS Integers, Sequences, FiniteSets, TLC

(***************************************************************************)
(* Bounds of the model.                                                    *)
(***************************************************************************)
\* normalized times and pan offsets handed to the API are multiples of 1/Grid
Grid == 2
\* widget widths (pixels) 1..MaxWidth used for the coordinate transforms
MaxWidth == 3
\* number of SpectrogramWorker objects that exist at the same time
MaxWorkers == 2
\* modification times of a source file and clock readings are in 1..MaxMtime
MaxMtime == 2
\* number of recordings started
MaxSessions == 2
\* chunks delivered and levels appended while recordings start and stop
MaxPolls == 2
MaxTicks == 2
\* chunks delivered and levels appended in one long recording
LivePolls == 202
LiveTicks == 1002
\* audio passed to the STFT: up to MaxFrames hops of 128 samples, one more or less
MaxFrames == 16

(***************************************************************************)
(* Exact rational arithmetic.                                              *)
(***************************************************************************)
RECURSIVE GCD(_, _)
GCD(a, b) == IF b = 0 THEN a ELSE GCD(b, a % b)

Abs(n) == IF n < 0 THEN -n ELSE n

\* the rational n/d (d # 0) in lowest terms with a positive denominator
Frac(n, d) ==
  LET s == IF d < 0 THEN -1 ELSE 1
      g == GCD(Abs(n), Abs(d))
  IN  <<(s * n) \div g, (s * d) \div g>>

R(n) == <<n, 1>>
RAdd(x, y) == Frac(x[1] * y[2] + y[1] * x[2], x[2] * y[2])
RSub(x, y) == Frac(x[1] * y[2] - y[1] * x[2], x[2] * y[2])
RMul(x, y) == Frac(x[1] * y[1], x[2] * y[2])
RDiv(x, y) == Frac(x[1] * y[2], x[2] * y[1])
RLt(x, y) == x[1] * y[2] < y[1] * x[2]
RLe(x, y) == x[1] * y[2] <= y[1] * x[2]
RMin(x, y) == IF RLe(x, y) THEN x ELSE y
RMax(x, y) == IF RLe(y, x) THEN x ELSE y
\* numpy.clip(x, lo, hi) = minimum(maximum(x, lo), hi)
RClip(x, lo, hi) == RMin(RMax(x, lo), hi)

(***************************************************************************)
(* ViewportState (src/model/viewport_state.py).                            *)
(***************************************************************************)
min_zoom == R(1)
max_zoom == R(50)

\* payload slot of a signal that carries no argument
NoArg == R(0)

\* a signal emission, with the values zoom_level and pan_offset hold at the
\* moment of the emit
Emission(sig, arg, z, p) == [sig |-> sig, arg |-> arg, zoom_at |-> z, pan_at |-> p]

visible_duration(z) == RMin(R(1), RDiv(R(1), z))

\* the tier with the thresholds themselves left in the lower tier
tier_thresholds_exclusive(z) ==
  IF RLe(z, R(2)) THEN 0
  ELSE IF RLe(z, R(5)) THEN 1
  ELSE IF RLe(z, R(10)) THEN 2
  ELSE 3

get_resolution_tier(z) ==
  IF RLt(z, R(2)) THEN 0
  ELSE IF RLt(z, R(5)) THEN 1
  ELSE IF RLt(z, R(10)) THEN 2
  ELSE 3

resolutions == <<1014, 2028, 4992, 9984>>
hop_lengths == <<1024, 512, 256, 128>>

get_recommended_resolution(z) == resolutions[get_resolution_tier(z) + 1]
get_recommended_hop_length(z) == hop_lengths[get_resolution_tier(z) + 1]

\* set_zoom line 72: the clamped zoom equals the current zoom
zoom_never_unchanged(new_zoom, z0) == FALSE
zoom_unchanged(new_zoom, z0) == new_zoom = z0

\* set_zoom lines 83-87: where center_time sits in the current viewport
center_pos_middle(z0, p0, center_time) == Frac(1, 2)
center_viewport_pos(z0, p0, center_time) ==
  IF RLt(R(0), visible_duration(z0))
  THEN RClip(RDiv(RSub(center_time, p0), visible_duration(z0)), R(0), R(1))
  ELSE Frac(1, 2)

\* set_zoom lines 96-100: the signals emitted once the state is updated
zoom_signals_always_both(old_tier, new_tier, new_zoom, new_pan) ==
  <<Emission("viewport_changed", NoArg, new_zoom, new_pan),
    Emission("zoom_level_changed", new_zoom, new_zoom, new_pan)>>
zoom_signals(old_tier, new_tier, new_zoom, new_pan) ==
  IF old_tier # new_tier
  THEN <<Emission("viewport_changed", NoArg, new_zoom, new_pan),
         Emission("zoom_level_changed", new_zoom, new_zoom, new_pan)>>
  ELSE <<Emission("viewport_changed", NoArg, new_zoom, new_pan)>>

\* set_zoom: the new (zoom_level, pan_offset) and the signals emitted, in order
set_zoom(z0, p0, zoom, center_time) ==
  LET new_zoom == RClip(zoom, min_zoom, max_zoom) IN
  IF zoom_unchanged(new_zoom, z0)
  THEN [zoom_level |-> z0, pan_offset |-> p0, emits |-> <<>>]
  ELSE
    LET old_resolution_tier == get_resolution_tier(z0)
        new_resolution_tier == get_resolution_tier(new_zoom)
        new_visible_duration == RDiv(R(1), new_zoom)
        new_pan_offset ==
          RSub(center_time,
               RMul(center_viewport_pos(z0, p0, center_time), new_visible_duration))
        pan1 == RClip(new_pan_offset, R(0), RMax(R(0), RSub(R(1), new_visible_duration)))
    IN [zoom_level |-> new_zoom, pan_offset |-> pan1,
        emits |-> zoom_signals(old_resolution_tier, new_resolution_tier, new_zoom, pan1)]

\* set_pan lines 160-161: the offset clamped so that the viewport stays in [0, 1]
clamp_offset_low_only(z0, offset) == RMax(offset, R(0))
clamp_offset(z0, offset) ==
  LET max_offset == RMax(R(0), RSub(R(1), visible_duration(z0)))
  IN RClip(offset, R(0), max_offset)

set_pan(z0, p0, offset) ==
  LET new_offset == clamp_offset(z0, offset)
  IN IF new_offset = p0
     THEN [zoom_level |-> z0, pan_offset |-> p0, emits |-> <<>>]
     ELSE [zoom_level |-> z0, pan_offset |-> new_offset,
           emits |-> <<Emission("viewport_changed", NoArg, z0, new_offset)>>]

reset_without_check(z0, p0) ==
  [zoom_level |-> R(1), pan_offset |-> R(0),
   emits |-> <<Emission("viewport_changed", NoArg, R(1), R(0))>>]
reset(z0, p0) ==
  IF z0 = R(1) /\ p0 = R(0)
  THEN [zoom_level |-> z0, pan_offset |-> p0, emits |-> <<>>]
  ELSE [zoom_level |-> R(1), pan_offset |-> R(0),
        emits |-> <<Emission("viewport_changed", NoArg, R(1), R(0))>>]

screen_to_time(z0, p0, pixel_x, widget_width) ==
  IF RLe(widget_width, R(0)) THEN R(0)
  ELSE LET viewport_fraction == RDiv(pixel_x, widget_width)
           normalized_time == RAdd(p0, RMul(viewport_fraction, visible_duration(z0)))
       IN RClip(normalized_time, R(0), R(1))

time_to_screen(z0, p0, normalized_time, widget_width) ==
  IF RLe(visible_duration(z0), R(0)) THEN R(0)
  ELSE LET viewport_fraction == RDiv(RSub(normalized_time, p0), visible_duration(z0))
       IN RMul(viewport_fraction, widget_width)

is_time_visible(z0, p0, normalized_time) ==
  RLe(p0, normalized_time) /\ RLe(normalized_time, RAdd(p0, visible_duration(z0)))


(***************************************************************************)
(* Spectrogram cache (src/model/spectrogram_data.py).  One .spec file per  *)
(* source audio file.  A spectrogram is identified by the file and the hop *)
(* length it was computed with.                                            *)
(***************************************************************************)
Memos == {"m1"}
NoMemo == "none"

\* transform parameters the controller passes to every worker
N_FFT == 1024
FREQ_MIN == 80
FREQ_MAX == 8000

NoData == [file |-> NoMemo, hop |-> 0]
Spectrogram(file, hop) == [file |-> file, hop |-> hop]

\* modification time of the source audio file (self._file_path.stat().st_mtime)
source_mtime(s, file) == s.mtime[file]

NoEntry ==
  [exists |-> FALSE, readable |-> FALSE, cache_mtime |-> 0, file_mtime |-> 0,
   n_fft |-> 0, hop_length |-> 0, freq_min |-> 0, freq_max |-> 0,
   spectrogram |-> NoData]

\* _save_to_cache: the cache file written at time now
save_to_cache(spectrogram, file_mtime, n_fft, hop_length, freq_min, freq_max, now) ==
  [exists |-> TRUE, readable |-> TRUE, cache_mtime |-> now, file_mtime |-> file_mtime,
   n_fft |-> n_fft, hop_length |-> hop_length, freq_min |-> freq_min,
   freq_max |-> freq_max, spectrogram |-> spectrogram]

\* open(self._cache_file, "wb") at time now: the file exists, truncated, and
\* holds no complete pickle until the dump has written it
open_wb(now) == [NoEntry EXCEPT !.exists = TRUE, !.cache_mtime = now]

\* a validation that leaves the hop length out of the comparison
load_from_cache_any_hop(entry, file_mtime, n_fft, hop_length, freq_min, freq_max) ==
  /\ entry.exists /\ entry.cache_mtime >= file_mtime /\ entry.readable
  /\ entry.file_mtime = file_mtime
  /\ entry.n_fft = n_fft /\ entry.freq_min = freq_min /\ entry.freq_max = freq_max

\* _load_from_cache: TRUE iff the cache file is loaded (a hit)
load_from_cache(entry, file_mtime, n_fft, hop_length, freq_min, freq_max) ==
  IF ~entry.exists THEN FALSE
  ELSE IF entry.cache_mtime < file_mtime THEN FALSE
  ELSE IF ~entry.readable THEN FALSE
  ELSE IF entry.file_mtime # file_mtime THEN FALSE
  ELSE IF \/ entry.n_fft # n_fft
          \/ entry.hop_length # hop_length
          \/ entry.freq_min # freq_min
          \/ entry.freq_max # freq_max
       THEN FALSE
  ELSE TRUE

(***************************************************************************)
(* State.                                                                  *)
(***************************************************************************)
VARIABLES
  zoom_level,          \* ViewportState._zoom_level
  pan_offset,          \* ViewportState._pan_offset
  current_memo,        \* PlaybackController._current_memo
  waveform_data,       \* PlaybackController._waveform_data (file of the object, or NoMemo)
  waveform_widget,     \* WaveformWidget._waveform_data (what is shown)
  spectrogram,         \* SpectrogramWidget: _spectrogram_data, _is_loading, _is_recording
  spectrogram_worker,  \* PlaybackController._spectrogram_worker (0 = None)
  workers,             \* the SpectrogramWorker threads, by slot
  queue,               \* queued worker signals waiting for the GUI event loop
  mainpc,              \* where the GUI thread is: idle or blocked in a wait()
  pending,             \* arguments of the handler the GUI thread is blocked in
  cache,               \* the .spec cache file of every source file
  mtime,               \* the modification time of every source file
  recorderState,       \* QMediaRecorder.recorderState() of AudioRecorder._recorder
  is_paused,           \* AudioRecorder._is_paused
  current_file,        \* AudioRecorder._current_file: the n-th recording file (0 = None)
  files,               \* the recording files the recorder has written audio to
  current_audio_level, \* AudioRecorder._current_audio_level: the file it was measured from (0 = 0.0)
  recording_file_path, \* AudioLevelMonitor._recording_file_path (0 = None); the poll timer runs iff set
  update_timer,        \* RecordingController._update_timer is active
  waveform_buffer,     \* RecordingController._waveform_buffer
  spectrogram_buffer,  \* RecordingController._spectrogram_buffer
  frequency_bins,      \* RecordingController._frequency_bins is not None
  recording_buffer,    \* WaveformWidget._recording_buffer (<<>> = None)
  polls,               \* chunks the level monitor has delivered so far
  ticks,               \* levels the update timer has appended so far
  audio_files,         \* the audio files of one directory: mtime, content version, samples
  waveform_cache,      \* the .wfcache files of that directory, by cache path
  call,                \* observer: the last ViewportState call and its pre-state
  emits,               \* observer: the signals that call emitted, in order
  prev                 \* observer: the call before it: operation, signals emitted

ctlvars == <<current_memo, waveform_data, waveform_widget, spectrogram,
             spectrogram_worker, workers, queue, mainpc, pending, cache, mtime>>
obsvars == <<call, emits, prev>>
recvars == <<recorderState, is_paused, current_file, files, current_audio_level,
             recording_file_path, update_timer, waveform_buffer, spectrogram_buffer,
             frequency_bins, recording_buffer, polls, ticks>>
wfvars == <<audio_files, waveform_cache>>
vars == <<zoom_level, pan_offset, ctlvars, recvars, wfvars, obsvars>>

WorkerIds == 1..MaxWorkers

\* a slot that holds no worker object the program can still observe
NoWorker ==
  [pc |-> "none", file |-> NoMemo, hop_length |-> 0, cancelled |-> FALSE,
   audio |-> "none", sample_rate |-> 0, out |-> "none", stored |-> FALSE,
   reason |-> "none"]

\* SpectrogramWorker.__init__ followed by start()
NewWorker(file, hop_length) ==
  [pc |-> "lookup", file |-> file, hop_length |-> hop_length, cancelled |-> FALSE,
   audio |-> "none", sample_rate |-> 0, out |-> "none", stored |-> FALSE,
   reason |-> "none"]

\* QThread.isRunning()
isRunning(w) == w.pc \notin {"none", "finished"}

NoPending == [file |-> NoMemo, hop |-> 0]
NoWaveform == [file |-> NoMemo, resolution |-> 0]
Waveform(file, resolution) == [file |-> file, resolution |-> resolution]
\* two audio files of one directory that differ in their extension only
AudioFiles == {"m1.wav", "m1.m4a"}
\* None, for a waveform array
NoArray == [file |-> NoMemo, version |-> 0, resolution |-> 0, len |-> 0]
NoWfEntry == [exists |-> FALSE, cache_mtime |-> 0, waveform |-> NoArray, resolution |-> 0]

NoCall == [op |-> "none", a1 |-> R(0), a2 |-> R(0), pre_zoom |-> R(1), pre_pan |-> R(0)]

Init ==
  /\ zoom_level = R(1)
  /\ pan_offset = R(0)
  /\ current_memo = NoMemo
  /\ waveform_data = NoMemo
  /\ waveform_widget = NoWaveform
  /\ spectrogram = [data |-> NoData, is_loading |-> FALSE, is_recording |-> FALSE]
  /\ spectrogram_worker = 0
  /\ workers = [w \in WorkerIds |-> NoWorker]
  /\ queue = <<>>
  /\ mainpc = "idle"
  /\ pending = NoPending
  /\ cache = [f \in Memos |-> NoEntry]
  /\ mtime = [f \in Memos |-> 1]
  /\ recorderState = "Stopped"
  /\ is_paused = FALSE
  /\ current_file = 0
  /\ files = {}
  /\ current_audio_level = 0
  /\ recording_file_path = 0
  /\ update_timer = FALSE
  /\ waveform_buffer = <<>>
  /\ spectrogram_buffer = <<>>
  /\ frequency_bins = FALSE
  /\ recording_buffer = <<>>
  /\ polls = 0
  /\ ticks = 0
  /\ audio_files = [f \in AudioFiles |-> [mtime |-> 1, version |-> 1, samples |-> 8000]]
  /\ waveform_cache = [c \in {"m1.wfcache"} |-> NoWfEntry]
  /\ call = NoCall
  /\ emits = <<>>
  /\ prev = [op |-> "none", n_emits |-> 0]


(***************************************************************************)
(* The program state as one value, so that the statements of a handler     *)
(* compose in program order.                                               *)
(***************************************************************************)
Cur ==
  [zoom_level |-> zoom_level, pan_offset |-> pan_offset,
   current_memo |-> current_memo, waveform_data |-> waveform_data,
   waveform_widget |-> waveform_widget, spectrogram |-> spectrogram,
   spectrogram_worker |-> spectrogram_worker, workers |-> workers,
   queue |-> queue, mainpc |-> mainpc, pending |-> pending, cache |-> cache,
   mtime |-> mtime]

\* A finished thread that the controller no longer references and that has no
\* signal queued cannot be observed by the program any more: its slot is freed.
Collect(s) ==
  [s EXCEPT !.workers =
     [w \in WorkerIds |->
        IF /\ s.workers[w].pc = "finished"
           /\ s.spectrogram_worker # w
           /\ \A i \in 1..Len(s.queue) : s.queue[i].w # w
        THEN NoWorker
        ELSE s.workers[w]]]

Becomes(s) ==
  \E n \in {Collect(s)} :
  /\ zoom_level' = n.zoom_level
  /\ pan_offset' = n.pan_offset
  /\ current_memo' = n.current_memo
  /\ waveform_data' = n.waveform_data
  /\ waveform_widget' = n.waveform_widget
  /\ spectrogram' = n.spectrogram
  /\ spectrogram_worker' = n.spectrogram_worker
  /\ workers' = n.workers
  /\ queue' = n.queue
  /\ mainpc' = n.mainpc
  /\ pending' = n.pending
  /\ cache' = n.cache
  /\ mtime' = n.mtime
  /\ UNCHANGED <<recvars, wfvars>>

\* a free slot exists for one more SpectrogramWorker
CanStart == \E w \in WorkerIds : workers[w].pc = "none"
FreeSlot(s) ==
  CHOOSE w \in WorkerIds :
    /\ s.workers[w].pc = "none"
    /\ \A v \in WorkerIds : s.workers[v].pc = "none" => w <= v

(***************************************************************************)
(* PlaybackController (src/controller/playback_controller.py).             *)
(***************************************************************************)
\* SpectrogramWidget.clear()
spectrogram_clear == [data |-> NoData, is_loading |-> FALSE, is_recording |-> FALSE]

\* the controller's test before cancel()/wait()
worker_is_running(s) ==
  s.spectrogram_worker # 0 /\ isRunning(s.workers[s.spectrogram_worker])

\* cancel() on the tracked worker; the GUI thread then blocks in wait()
cancel_and_wait(s, where, file, hop) ==
  [s EXCEPT !.workers[s.spectrogram_worker].cancelled = TRUE,
            !.mainpc = where,
            !.pending = [file |-> file, hop |-> hop]]

\* _load_spectrogram_async after the wait: lines 204-229
start_worker(s, file, hop_length) ==
  LET w == FreeSlot(s) IN
  [s EXCEPT !.spectrogram.is_loading = TRUE,
            !.workers[w] = NewWorker(file, hop_length),
            !.spectrogram_worker = w,
            !.mainpc = "idle",
            !.pending = NoPending]

load_spectrogram_async(s, file, hop_length) ==
  IF worker_is_running(s)
  THEN cancel_and_wait(s, "async_wait", file, hop_length)
  ELSE start_worker(s, file, hop_length)

\* _load_waveform; wf_ok: the extraction gave a waveform
load_waveform(s, file, resolution, wf_ok) ==
  [s EXCEPT !.waveform_data = file,
            !.waveform_widget = IF wf_ok THEN Waveform(file, resolution) ELSE NoWaveform]

\* load_memo from the load of the file on: lines 106-128
load_memo_rest(s, memo, ok, wf_ok) ==
  IF ~ok
  THEN [s EXCEPT !.mainpc = "idle", !.pending = NoPending]
  ELSE
    LET v == reset(s.zoom_level, s.pan_offset)
        s1 == [s EXCEPT !.current_memo = memo,
                        !.zoom_level = v.zoom_level,
                        !.pan_offset = v.pan_offset]
        s2 == load_waveform(s1, memo, get_recommended_resolution(s1.zoom_level), wf_ok)
    IN load_spectrogram_async(s2, memo, get_recommended_hop_length(s1.zoom_level))

load_memo(s, memo, ok, wf_ok) ==
  IF worker_is_running(s)
  THEN cancel_and_wait(s, "load_memo_wait", memo, 0)
  ELSE load_memo_rest(s, memo, ok, wf_ok)

\* unload from self.stop() on: lines 161-165
unload_rest(s) ==
  [s EXCEPT !.current_memo = NoMemo,
            !.waveform_widget = NoWaveform,
            !.spectrogram = spectrogram_clear,
            !.mainpc = "idle",
            !.pending = NoPending]

unload(s) ==
  IF worker_is_running(s)
  THEN cancel_and_wait(s, "unload_wait", NoMemo, 0)
  ELSE unload_rest(s)

\* unload after its wait(): line 159, then the rest
unload_after_wait(s) == unload_rest([s EXCEPT !.spectrogram_worker = 0])

\* slot connected to computation_finished; w is the sender, which the slot
\* does not look at
on_spectrogram_loaded(s, w, data) ==
  [s EXCEPT !.spectrogram =
              [data |-> IF data # NoData THEN data ELSE s.spectrogram.data,
               is_loading |-> FALSE,
               is_recording |-> s.spectrogram.is_recording],
            !.spectrogram_worker = 0]

\* slot connected to computation_failed
on_spectrogram_failed(s, w) ==
  [s EXCEPT !.spectrogram = spectrogram_clear,
            !.spectrogram_worker = 0]

\* slot connected to ViewportState.zoom_level_changed (a direct connection)
on_zoom_level_changed(s, wf_ok) ==
  IF s.current_memo = NoMemo \/ s.waveform_data = NoMemo
  THEN s
  ELSE
    LET new_resolution == get_recommended_resolution(s.zoom_level)
        new_hop_length == get_recommended_hop_length(s.zoom_level)
    IN load_spectrogram_async(
         load_waveform(s, s.current_memo, new_resolution, wf_ok),
         s.current_memo, new_hop_length)


(***************************************************************************)
(* SpectrogramWorker.run (src/model/spectrogram_data.py), one step per     *)
(* operation.  A step named after an operation first reads the cancel flag *)
(* where the code reads it before that operation.  A signal emitted from   *)
(* the worker thread is queued for the GUI thread.                         *)
(***************************************************************************)
Signal(sig, w, data) == [sig |-> sig, w |-> w, data |-> data]

emit(s, w, sig, data, reason) ==
  [s EXCEPT !.queue = Append(@, Signal(sig, w, data)),
            !.workers[w].out = sig,
            !.workers[w].reason = reason,
            !.workers[w].audio = "none",
            !.workers[w].sample_rate = 0,
            !.workers[w].pc = "ret"]

\* return without a signal
return_silently(s, w, reason) ==
  [s EXCEPT !.workers[w].reason = reason,
            !.workers[w].audio = "none",
            !.workers[w].sample_rate = 0,
            !.workers[w].pc = "ret"]

\* what the lookup of a worker found: the cache file is absent, older than the
\* source (stale), cannot be unpickled (corrupt), holds another key (mismatch),
\* or is loaded (hit); intact: pickle.load does not raise
lookup_outcome(s, w, intact) ==
  LET wk == s.workers[w]
      entry == s.cache[wk.file]
  IN IF ~entry.exists THEN "absent"
     ELSE IF entry.cache_mtime < source_mtime(s, wk.file) THEN "stale"
     ELSE IF ~(intact /\ entry.readable) THEN "corrupt"
     ELSE IF \/ entry.file_mtime # source_mtime(s, wk.file)
             \/ entry.n_fft # N_FFT \/ entry.hop_length # wk.hop_length
             \/ entry.freq_min # FREQ_MIN \/ entry.freq_max # FREQ_MAX
          THEN "mismatch"
     ELSE "hit"

\* a lookup in which a cache file that cannot be read ends the run as failed
worker_lookup_corrupt_fails(s, w, intact) ==
  LET wk == s.workers[w]
      entry == [s.cache[wk.file] EXCEPT !.readable = @ /\ intact]
  IN IF load_from_cache(entry, source_mtime(s, wk.file), N_FFT, wk.hop_length,
                        FREQ_MIN, FREQ_MAX)
     THEN emit(s, w, "computation_finished", entry.spectrogram, "completed")
     ELSE IF entry.exists /\ ~entry.readable
          THEN emit(s, w, "computation_failed", NoData, "failed")
     ELSE [s EXCEPT !.workers[w].pc = "probe"]

\* lines 50-64: cache lookup, and the publish of a hit
worker_lookup(s, w, intact) ==
  LET wk == s.workers[w]
      entry == [s.cache[wk.file] EXCEPT !.readable = @ /\ intact]
  IN IF load_from_cache(entry, source_mtime(s, wk.file), N_FFT, wk.hop_length,
                        FREQ_MIN, FREQ_MAX)
     THEN emit(s, w, "computation_finished", entry.spectrogram, "completed")
     ELSE [s EXCEPT !.workers[w].pc = "probe"]

\* an extraction at the rate of the file, however high
target_sample_rate_native(file_sample_rate) == file_sample_rate

\* line 75: min(file_sample_rate, 16000)
target_sample_rate(file_sample_rate) ==
  IF file_sample_rate < 16000 THEN file_sample_rate ELSE 16000

\* a probe whose failure is reported while the run goes on to the extraction
worker_probe_failure_continues(s, w, raises, file_sample_rate) ==
  IF s.workers[w].cancelled THEN return_silently(s, w, "cancelled")
  ELSE IF raises
       THEN [emit(s, w, "computation_failed", NoData, "failed")
               EXCEPT !.workers[w].pc = "extract"]
  ELSE [s EXCEPT !.workers[w].sample_rate = target_sample_rate(file_sample_rate),
                 !.workers[w].pc = "extract"]

\* lines 67-75: flag, then the probe of the file, which reports its sample rate
worker_probe(s, w, raises, file_sample_rate) ==
  IF s.workers[w].cancelled THEN return_silently(s, w, "cancelled")
  ELSE IF raises THEN emit(s, w, "computation_failed", NoData, "failed")
  ELSE [s EXCEPT !.workers[w].sample_rate = target_sample_rate(file_sample_rate),
                 !.workers[w].pc = "extract"]

\* lines 77-84: flag, then the PCM extraction (which never raises)
worker_extract(s, w, result) ==
  IF s.workers[w].cancelled THEN return_silently(s, w, "cancelled")
  ELSE [s EXCEPT !.workers[w].audio = result, !.workers[w].pc = "stft"]

\* an STFT step that takes an empty extraction for silent audio
worker_stft_empty_is_silence(s, w, raises) ==
  LET wk == s.workers[w] IN
  IF wk.cancelled
  THEN emit(s, w, "computation_failed", NoData, "cancelled")
  ELSE IF raises THEN emit(s, w, "computation_failed", NoData, "failed")
  ELSE [s EXCEPT !.workers[w].audio = "none", !.workers[w].pc = "filter"]

\* lines 86-99: flag and extraction result, then the STFT
worker_stft(s, w, raises) ==
  LET wk == s.workers[w] IN
  IF wk.cancelled \/ wk.audio # "ok"
  THEN emit(s, w, "computation_failed", NoData,
            IF wk.audio # "ok" THEN "failed" ELSE "cancelled")
  ELSE IF raises THEN emit(s, w, "computation_failed", NoData, "failed")
  ELSE [s EXCEPT !.workers[w].audio = "none", !.workers[w].pc = "filter"]

\* lines 101-107: flag, then the frequency filter
worker_filter(s, w, raises) ==
  IF s.workers[w].cancelled THEN return_silently(s, w, "cancelled")
  ELSE IF raises THEN emit(s, w, "computation_failed", NoData, "failed")
  ELSE [s EXCEPT !.workers[w].pc = "save"]

\* a store whose failure reaches the except clause of run()
worker_save_failure_raises(s, w, written) ==
  LET wk == s.workers[w] IN
  IF written
  THEN [s EXCEPT !.cache[wk.file] = open_wb(source_mtime(s, wk.file)),
                 !.workers[w].pc = "write"]
  ELSE emit(s, w, "computation_failed", NoData, "failed")

\* lines 109-117 and 241-242: the cache store begins, open(cache_file, "wb")
\* truncates the cache file in place; written: the file could be opened
worker_save(s, w, written) ==
  LET wk == s.workers[w] IN
  IF written
  THEN [s EXCEPT !.cache[wk.file] = open_wb(source_mtime(s, wk.file)),
                 !.workers[w].pc = "write"]
  ELSE [s EXCEPT !.workers[w].pc = "emit"]

\* a dump that never leaves the file half written: a failure removes the file
worker_write_failure_unlinks(s, w, completes) ==
  LET wk == s.workers[w] IN
  IF completes
  THEN [s EXCEPT !.cache[wk.file] =
                   save_to_cache(Spectrogram(wk.file, wk.hop_length),
                                 source_mtime(s, wk.file), N_FFT, wk.hop_length,
                                 FREQ_MIN, FREQ_MAX, source_mtime(s, wk.file)),
                 !.workers[w].stored = TRUE,
                 !.workers[w].pc = "emit"]
  ELSE [s EXCEPT !.cache[wk.file] = NoEntry, !.workers[w].pc = "emit"]

\* lines 242-247: pickle.dump into the open file; completes: the dump wrote the
\* whole entry (a failure is caught and leaves what was written so far)
worker_write(s, w, completes) ==
  LET wk == s.workers[w] IN
  IF completes
  THEN [s EXCEPT !.cache[wk.file] =
                   save_to_cache(Spectrogram(wk.file, wk.hop_length),
                                 source_mtime(s, wk.file), N_FFT, wk.hop_length,
                                 FREQ_MIN, FREQ_MAX, source_mtime(s, wk.file)),
                 !.workers[w].stored = TRUE,
                 !.workers[w].pc = "emit"]
  ELSE [s EXCEPT !.workers[w].pc = "emit"]

\* line 120: publish
worker_emit(s, w) ==
  LET wk == s.workers[w] IN
  emit(s, w, "computation_finished", Spectrogram(wk.file, wk.hop_length), "completed")

\* run() has returned: the thread ends
worker_exit(s, w) == [s EXCEPT !.workers[w].pc = "finished"]

(***************************************************************************)
(* Actions of the worker threads.                                          *)
(***************************************************************************)
WorkerLookup(w, intact) ==
  /\ workers[w].pc = "lookup"
  /\ Becomes(worker_lookup(Cur, w, intact))
  /\ UNCHANGED obsvars

WorkerProbe(w, raises, file_sample_rate) ==
  /\ workers[w].pc = "probe"
  /\ Becomes(worker_probe(Cur, w, raises, file_sample_rate))
  /\ UNCHANGED obsvars

WorkerExtract(w, result) ==
  /\ workers[w].pc = "extract"
  /\ Becomes(worker_extract(Cur, w, result))
  /\ UNCHANGED obsvars

WorkerStft(w, raises) ==
  /\ workers[w].pc = "stft"
  /\ Becomes(worker_stft(Cur, w, raises))
  /\ UNCHANGED obsvars

WorkerFilter(w, raises) ==
  /\ workers[w].pc = "filter"
  /\ Becomes(worker_filter(Cur, w, raises))
  /\ UNCHANGED obsvars

WorkerSave(w, written) ==
  /\ workers[w].pc = "save"
  /\ Becomes(worker_save(Cur, w, written))
  /\ UNCHANGED obsvars

WorkerWrite(w, completes) ==
  /\ workers[w].pc = "write"
  /\ Becomes(worker_write(Cur, w, completes))
  /\ UNCHANGED obsvars

WorkerEmit(w) ==
  /\ workers[w].pc = "emit"
  /\ Becomes(worker_emit(Cur, w))
  /\ UNCHANGED obsvars

WorkerExit(w) ==
  /\ workers[w].pc = "ret"
  /\ Becomes(worker_exit(Cur, w))
  /\ UNCHANGED obsvars

(***************************************************************************)
(* Actions of the GUI thread.                                              *)
(***************************************************************************)
\* MainController._on_memo_selected -> load_memo(memo)
LoadMemo(memo, ok, wf_ok) ==
  /\ mainpc = "idle"
  /\ CanStart
  /\ Becomes(load_memo(Cur, memo, ok, wf_ok))
  /\ UNCHANGED obsvars

\* load_memo returns from wait()
LoadMemoResume(ok, wf_ok) ==
  /\ mainpc = "load_memo_wait"
  /\ ~worker_is_running(Cur)
  /\ Becomes(load_memo_rest(Cur, pending.file, ok, wf_ok))
  /\ UNCHANGED obsvars

\* _load_spectrogram_async returns from wait()
AsyncResume ==
  /\ mainpc = "async_wait"
  /\ ~worker_is_running(Cur)
  /\ Becomes(start_worker(Cur, pending.file, pending.hop))
  /\ UNCHANGED obsvars

\* MainController._on_quit -> unload()
Unload ==
  /\ mainpc = "idle"
  /\ Becomes(unload(Cur))
  /\ UNCHANGED obsvars

\* unload returns from wait()
UnloadResume ==
  /\ mainpc = "unload_wait"
  /\ ~worker_is_running(Cur)
  /\ Becomes(unload_after_wait(Cur))
  /\ UNCHANGED obsvars

\* the event loop delivers the oldest queued worker signal to its slot
DeliverSignal ==
  /\ mainpc = "idle"
  /\ queue # <<>>
  /\ LET e == Head(queue)
         s == [Cur EXCEPT !.queue = Tail(queue)]
     IN Becomes(IF e.sig = "computation_finished"
                THEN on_spectrogram_loaded(s, e.w, e.data)
                ELSE on_spectrogram_failed(s, e.w))
  /\ UNCHANGED obsvars

\* ViewportState.set_zoom, with the slot of zoom_level_changed run inside the emit
SetZoom(zoom, center_time, wf_ok) ==
  /\ mainpc = "idle"
  /\ \E r \in {set_zoom(zoom_level, pan_offset, zoom, center_time)} :
       LET s == [Cur EXCEPT !.zoom_level = r.zoom_level, !.pan_offset = r.pan_offset]
           tier_changed ==
             \E i \in 1..Len(r.emits) : r.emits[i].sig = "zoom_level_changed"
       IN /\ (tier_changed /\ current_memo # NoMemo) => CanStart
          /\ Becomes(IF tier_changed THEN on_zoom_level_changed(s, wf_ok) ELSE s)

\* ViewportState.set_pan
SetPan(offset) ==
  LET r == set_pan(zoom_level, pan_offset, offset) IN
  /\ mainpc = "idle"
  /\ Becomes([Cur EXCEPT !.zoom_level = r.zoom_level, !.pan_offset = r.pan_offset])

\* ViewportState.reset
Reset ==
  LET r == reset(zoom_level, pan_offset) IN
  /\ mainpc = "idle"
  /\ Becomes([Cur EXCEPT !.zoom_level = r.zoom_level, !.pan_offset = r.pan_offset])

\* wheelEvent of the waveform or the spectrogram widget
WheelZoom(zoom, center_time, wf_ok) ==
  /\ waveform_widget # NoWaveform \/ spectrogram.data # NoData
  /\ SetZoom(zoom, center_time, wf_ok)
  /\ UNCHANGED obsvars

\* mouseMoveEvent of either widget while dragging
DragPan(offset) ==
  /\ waveform_widget # NoWaveform \/ spectrogram.data # NoData
  /\ RLt(R(1), zoom_level)
  /\ SetPan(offset)
  /\ UNCHANGED obsvars

\* mouseDoubleClickEvent of either widget
DoubleClickReset ==
  /\ Reset
  /\ UNCHANGED obsvars

(***************************************************************************)
(* The file system outside the program.                                    *)
(***************************************************************************)
\* the source audio file is rewritten: its modification time moves on
TouchSource(f) ==
  /\ mtime[f] < MaxMtime
  /\ Becomes([Cur EXCEPT !.mtime[f] = @ + 1])

\* the cache file is damaged: pickle.load will raise
CorruptCache(f) ==
  /\ cache[f].exists /\ cache[f].readable
  /\ Becomes([Cur EXCEPT !.cache[f].readable = FALSE])

(***************************************************************************)
(* The controller with its workers.                                        *)
(***************************************************************************)
\* zooms and times the widgets hand to the viewport: one zoom in tier 0, one in tier 1
CtlZooms == {R(1), R(3)}
CtlTimes == {Frac(1, 2)}
CtlPans == {R(0)}
\* native sample rate of the memo files the controller loads
CtlRates == {48000}

Next ==
  \/ \E memo \in Memos, ok \in BOOLEAN, wf_ok \in BOOLEAN : LoadMemo(memo, ok, wf_ok)
  \/ \E ok \in BOOLEAN, wf_ok \in BOOLEAN : LoadMemoResume(ok, wf_ok)
  \/ AsyncResume
  \/ Unload
  \/ UnloadResume
  \/ DeliverSignal
  \/ \E z \in CtlZooms, t \in CtlTimes, wf_ok \in BOOLEAN : WheelZoom(z, t, wf_ok)
  \/ \E o \in CtlPans : DragPan(o)
  \/ DoubleClickReset
  \/ \E w \in WorkerIds, intact \in BOOLEAN : WorkerLookup(w, intact)
  \/ \E w \in WorkerIds, raises \in BOOLEAN, r \in CtlRates : WorkerProbe(w, raises, r)
  \/ \E w \in WorkerIds, result \in {"ok", "empty"} : WorkerExtract(w, result)
  \/ \E w \in WorkerIds, raises \in BOOLEAN : WorkerStft(w, raises)
  \/ \E w \in WorkerIds, raises \in BOOLEAN : WorkerFilter(w, raises)
  \/ \E w \in WorkerIds, written \in BOOLEAN : WorkerSave(w, written)
  \/ \E w \in WorkerIds, completes \in BOOLEAN : WorkerWrite(w, completes)
  \/ \E w \in WorkerIds : WorkerEmit(w)
  \/ \E w \in WorkerIds : WorkerExit(w)

Spec == Init /\ [][Next]_vars

\* the steps of the worker threads, which the operating system schedules
WorkerSteps ==
  \/ \E w \in WorkerIds, intact \in BOOLEAN : WorkerLookup(w, intact)
  \/ \E w \in WorkerIds, raises \in BOOLEAN, r \in CtlRates : WorkerProbe(w, raises, r)
  \/ \E w \in WorkerIds, result \in {"ok", "empty"} : WorkerExtract(w, result)
  \/ \E w \in WorkerIds, raises \in BOOLEAN : WorkerStft(w, raises)
  \/ \E w \in WorkerIds, raises \in BOOLEAN : WorkerFilter(w, raises)
  \/ \E w \in WorkerIds, written \in BOOLEAN : WorkerSave(w, written)
  \/ \E w \in WorkerIds, completes \in BOOLEAN : WorkerWrite(w, completes)
  \/ \E w \in WorkerIds : WorkerEmit(w)
  \/ \E w \in WorkerIds : WorkerExit(w)

\* the returns of wait() once the awaited thread has finished
WaitReturns ==
  \/ \E ok \in BOOLEAN, wf_ok \in BOOLEAN : LoadMemoResume(ok, wf_ok)
  \/ AsyncResume
  \/ UnloadResume

\* the program with its scheduling: worker threads run, wait() returns, and the
\* event loop delivers queued signals; the user need never act
SpecFair ==
  /\ Init /\ [][Next]_vars
  /\ WF_vars(WorkerSteps) /\ WF_vars(WaitReturns) /\ WF_vars(DeliverSignal)

(***************************************************************************)
(* The same program with an observer of the zoom_level_changed signal:     *)
(* call changes exactly when set_zoom emits it.                            *)
(***************************************************************************)
ZoomEvent(zoom, center_time, wf_ok) ==
  /\ waveform_widget # NoWaveform \/ spectrogram.data # NoData
  /\ SetZoom(zoom, center_time, wf_ok)
  /\ \E r \in {set_zoom(zoom_level, pan_offset, zoom, center_time)} :
       call' = IF \E i \in 1..Len(r.emits) : r.emits[i].sig = "zoom_level_changed"
               THEN [op |-> "zoom_level_changed",
                     n |-> IF call.op = "zoom_level_changed" THEN 1 - call.n ELSE 0]
               ELSE call
  /\ UNCHANGED <<emits, prev>>

NextZoom ==
  \/ \E memo \in Memos, ok \in BOOLEAN, wf_ok \in BOOLEAN : LoadMemo(memo, ok, wf_ok)
  \/ \E ok \in BOOLEAN, wf_ok \in BOOLEAN : LoadMemoResume(ok, wf_ok)
  \/ AsyncResume
  \/ Unload
  \/ UnloadResume
  \/ DeliverSignal
  \/ \E z \in CtlZooms, t \in CtlTimes, wf_ok \in BOOLEAN : ZoomEvent(z, t, wf_ok)
  \/ \E o \in CtlPans : DragPan(o)
  \/ DoubleClickReset
  \/ \E w \in WorkerIds, intact \in BOOLEAN : WorkerLookup(w, intact)
  \/ \E w \in WorkerIds, raises \in BOOLEAN, r \in CtlRates : WorkerProbe(w, raises, r)
  \/ \E w \in WorkerIds, result \in {"ok", "empty"} : WorkerExtract(w, result)
  \/ \E w \in WorkerIds, raises \in BOOLEAN : WorkerStft(w, raises)
  \/ \E w \in WorkerIds, raises \in BOOLEAN : WorkerFilter(w, raises)
  \/ \E w \in WorkerIds, written \in BOOLEAN : WorkerSave(w, written)
  \/ \E w \in WorkerIds, completes \in BOOLEAN : WorkerWrite(w, completes)
  \/ \E w \in WorkerIds : WorkerEmit(w)
  \/ \E w \in WorkerIds : WorkerExit(w)

SpecZoom == Init /\ [][NextZoom]_vars

(***************************************************************************)
(* The same program with an observer of load_memo.  call changes in every  *)
(* step of the handler that changes the state of the program or ends its   *)
(* wait.  While the handler waits, call.ok tells whether the player can    *)
(* load the file (whether the file exists: the same before and after the   *)
(* wait); once the handler has returned it is TRUE.  A load_memo that      *)
(* finds no worker to cancel and a file it cannot load returns at once and *)
(* leaves the program, and the observer, as they were.                     *)
(***************************************************************************)
LoadCall(ok, returned) ==
  [op |-> "load_memo", ok |-> ok, returned |-> returned,
   n |-> IF call.op = "load_memo" THEN 1 - call.n ELSE 0]

\* load_memo is called
LoadMemoCall(memo, ok, wf_ok) ==
  /\ mainpc = "idle"
  /\ CanStart
  /\ Becomes(load_memo(Cur, memo, ok, wf_ok))
  /\ call' = IF worker_is_running(Cur) THEN LoadCall(ok, FALSE)
             ELSE IF ok THEN LoadCall(TRUE, TRUE)
             ELSE call
  /\ UNCHANGED <<emits, prev>>

\* load_memo returns from wait() and runs to its end
LoadMemoReturn(wf_ok) ==
  /\ mainpc = "load_memo_wait"
  /\ ~worker_is_running(Cur)
  /\ Becomes(load_memo_rest(Cur, pending.file, call.ok, wf_ok))
  /\ call' = LoadCall(TRUE, TRUE)
  /\ UNCHANGED <<emits, prev>>

NextLoad ==
  \/ \E memo \in Memos, ok \in BOOLEAN, wf_ok \in BOOLEAN : LoadMemoCall(memo, ok, wf_ok)
  \/ \E wf_ok \in BOOLEAN : LoadMemoReturn(wf_ok)
  \/ AsyncResume
  \/ Unload
  \/ UnloadResume
  \/ DeliverSignal
  \/ \E z \in CtlZooms, t \in CtlTimes, wf_ok \in BOOLEAN : WheelZoom(z, t, wf_ok)
  \/ \E o \in CtlPans : DragPan(o)
  \/ DoubleClickReset
  \/ \E w \in WorkerIds, intact \in BOOLEAN : WorkerLookup(w, intact)
  \/ \E w \in WorkerIds, raises \in BOOLEAN, r \in CtlRates : WorkerProbe(w, raises, r)
  \/ \E w \in WorkerIds, result \in {"ok", "empty"} : WorkerExtract(w, result)
  \/ \E w \in WorkerIds, raises \in BOOLEAN : WorkerStft(w, raises)
  \/ \E w \in WorkerIds, raises \in BOOLEAN : WorkerFilter(w, raises)
  \/ \E w \in WorkerIds, written \in BOOLEAN : WorkerSave(w, written)
  \/ \E w \in WorkerIds, completes \in BOOLEAN : WorkerWrite(w, completes)
  \/ \E w \in WorkerIds : WorkerEmit(w)
  \/ \E w \in WorkerIds : WorkerExit(w)

SpecLoad == Init /\ [][NextLoad]_vars

(***************************************************************************)
(* The viewport alone, called through its API with arbitrary arguments,    *)
(* and an observer of each call.                                           *)
(***************************************************************************)
VpZooms == {Frac(1, 2), R(1), Frac(3, 2), R(2), R(5), R(10), R(50), R(60)}
VpTimes == {Frac(n, Grid) : n \in (0 - 1)..(Grid + 1)}
Widths == {R(n) : n \in 1..MaxWidth}

Observe(op, a1, a2, result) ==
  \E r \in {result} :
    /\ call' = [op |-> op, a1 |-> a1, a2 |-> a2,
                pre_zoom |-> zoom_level, pre_pan |-> pan_offset]
    /\ emits' = r.emits
    /\ prev' = [op |-> call.op, n_emits |-> Len(emits)]

CallSetZoom(zoom, center_time) ==
  /\ SetZoom(zoom, center_time, TRUE)
  /\ Observe("set_zoom", zoom, center_time,
             set_zoom(zoom_level, pan_offset, zoom, center_time))

CallSetPan(offset) ==
  /\ SetPan(offset)
  /\ Observe("set_pan", offset, R(0), set_pan(zoom_level, pan_offset, offset))

CallReset ==
  /\ Reset
  /\ Observe("reset", R(0), R(0), reset(zoom_level, pan_offset))

NextViewport ==
  \/ \E z \in VpZooms, t \in VpTimes : CallSetZoom(z, t)
  \/ \E o \in VpTimes : CallSetPan(o)
  \/ CallReset

SpecViewport == Init /\ [][NextViewport]_vars


(***************************************************************************)
(* The cache alone: SpectrogramData._save_to_cache and _load_from_cache    *)
(* called with arbitrary parameters at arbitrary clock readings, and an    *)
(* observer of the last store (prev) and the last load (call).             *)
(***************************************************************************)
CacheNffts == {N_FFT, 2 * N_FFT}
CacheHops == {hop_lengths[1], hop_lengths[2]}
CacheFmins == {FREQ_MIN, 2 * FREQ_MIN}
CacheFmaxs == {FREQ_MAX, FREQ_MAX \div 2}
Clock == 1..MaxMtime
NoStore == [op |-> "none"]

\* _save_to_cache at clock reading now; written: open() and pickle.dump succeeded
CacheStore(f, n_fft, hop_length, freq_min, freq_max, now, written) ==
  /\ Becomes(IF written
             THEN [Cur EXCEPT !.cache[f] =
                     save_to_cache(Spectrogram(f, hop_length), source_mtime(Cur, f),
                                   n_fft, hop_length, freq_min, freq_max, now)]
             ELSE Cur)
  /\ prev' = IF written
             THEN [op |-> "store", file |-> f, file_mtime |-> source_mtime(Cur, f),
                   n_fft |-> n_fft, hop_length |-> hop_length, freq_min |-> freq_min,
                   freq_max |-> freq_max, now |-> now,
                   data |-> Spectrogram(f, hop_length)]
             ELSE prev
  /\ call' = NoCall
  /\ UNCHANGED emits

\* _load_from_cache, and the spectrogram the object holds afterwards
CacheLoad(f, n_fft, hop_length, freq_min, freq_max) ==
  /\ Becomes(Cur)
  /\ \E hit \in {load_from_cache(cache[f], source_mtime(Cur, f), n_fft, hop_length,
                                  freq_min, freq_max)} :
       call' = [op |-> "load", file |-> f, file_mtime |-> source_mtime(Cur, f),
                n_fft |-> n_fft, hop_length |-> hop_length, freq_min |-> freq_min,
                freq_max |-> freq_max, hit |-> hit,
                data |-> IF hit THEN cache[f].spectrogram ELSE NoData]
  /\ UNCHANGED <<emits, prev>>

NextCache ==
  \/ \E f \in Memos, n \in CacheNffts, h \in CacheHops, lo \in CacheFmins,
        hi \in CacheFmaxs, now \in Clock, written \in BOOLEAN :
        CacheStore(f, n, h, lo, hi, now, written)
  \/ \E f \in Memos, n \in CacheNffts, h \in CacheHops, lo \in CacheFmins,
        hi \in CacheFmaxs : CacheLoad(f, n, h, lo, hi)
  \/ \E f \in Memos : TouchSource(f) /\ UNCHANGED obsvars
  \/ \E f \in Memos : CorruptCache(f) /\ prev' = NoStore /\ UNCHANGED <<call, emits>>

SpecCache == Init /\ [][NextCache]_vars

(***************************************************************************)
(* One worker at a time, dispatched by the controller, with every fault of *)
(* its environment, and an observer of the run: what the lookup found, the *)
(* faults injected (call) and the signals the worker emitted (emits).      *)
(***************************************************************************)
\* native sample rates of the files: below, at and above the 16 kHz ceiling
FileRates == {8000, 16000, 48000}

NoRun == [op |-> "none", w |-> 0, outcome |-> "none", faults |-> {}, rate |-> 0]

\* a step of worker w that takes the state to n, with the fault injected; the
\* steps that read the cancel flag first do not run once it is set
RunStep(w, pc, n, fault) ==
  /\ workers[w].pc = pc
  /\ Becomes(n)
  /\ call' = IF fault = "none" \/ (workers[w].cancelled /\ pc \notin {"save", "write"})
             THEN call
             ELSE [call EXCEPT !.faults = @ \cup {fault}]
  /\ emits' = IF Len(n.queue) > Len(queue)
              THEN Append(emits, n.queue[Len(n.queue)].sig)
              ELSE emits
  /\ UNCHANGED prev

\* _load_spectrogram_async while no worker is running and no signal is queued
Dispatch(f, hop_length) ==
  /\ mainpc = "idle" /\ queue = <<>>
  /\ \A w \in WorkerIds : ~isRunning(workers[w])
  /\ CanStart
  /\ Becomes(load_spectrogram_async(Cur, f, hop_length))
  /\ call' = [op |-> "run", w |-> FreeSlot(Cur), outcome |-> "none", faults |-> {},
              rate |-> 0]
  /\ emits' = <<>>
  /\ prev' = [op |-> "dispatch", file |-> f, cache |-> cache[f]]

\* SpectrogramWorker.cancel() on the tracked worker
CancelWorker ==
  /\ spectrogram_worker # 0
  /\ isRunning(workers[spectrogram_worker])
  /\ ~workers[spectrogram_worker].cancelled
  /\ Becomes([Cur EXCEPT !.workers[spectrogram_worker].cancelled = TRUE])
  /\ call' = [call EXCEPT !.faults = @ \cup {"cancel"}]
  /\ UNCHANGED <<emits, prev>>

RunLookup(w, intact) ==
  /\ workers[w].pc = "lookup"
  /\ Becomes(worker_lookup(Cur, w, intact))
  /\ call' = [call EXCEPT !.outcome = lookup_outcome(Cur, w, intact)]
  /\ \E n \in {worker_lookup(Cur, w, intact)} :
       emits' = IF Len(n.queue) > Len(queue)
                THEN Append(emits, n.queue[Len(n.queue)].sig)
                ELSE emits
  /\ UNCHANGED prev

\* the probe of a file whose native sample rate is file_sample_rate
RunProbe(w, raises, file_sample_rate) ==
  /\ workers[w].pc = "probe"
  /\ Becomes(worker_probe(Cur, w, raises, file_sample_rate))
  /\ call' = IF workers[w].cancelled THEN call
             ELSE [call EXCEPT !.rate = file_sample_rate,
                               !.faults = IF raises THEN @ \cup {"probe"} ELSE @]
  /\ \E n \in {worker_probe(Cur, w, raises, file_sample_rate)} :
       emits' = IF Len(n.queue) > Len(queue)
                THEN Append(emits, n.queue[Len(n.queue)].sig)
                ELSE emits
  /\ UNCHANGED prev

NextWorker ==
  \/ \E f \in Memos, h \in CacheHops : Dispatch(f, h)
  \/ CancelWorker
  \/ \E w \in WorkerIds, intact \in BOOLEAN : RunLookup(w, intact)
  \/ \E w \in WorkerIds, raises \in BOOLEAN, r \in FileRates : RunProbe(w, raises, r)
  \/ \E w \in WorkerIds, result \in {"ok", "empty"} :
       RunStep(w, "extract", worker_extract(Cur, w, result),
               IF result = "empty" THEN "extract" ELSE "none")
  \/ \E w \in WorkerIds, raises \in BOOLEAN :
       RunStep(w, "stft", worker_stft(Cur, w, raises),
               IF raises THEN "stft" ELSE "none")
  \/ \E w \in WorkerIds, raises \in BOOLEAN :
       RunStep(w, "filter", worker_filter(Cur, w, raises),
               IF raises THEN "filter" ELSE "none")
  \/ \E w \in WorkerIds, written \in BOOLEAN :
       RunStep(w, "save", worker_save(Cur, w, written),
               IF written THEN "none" ELSE "save")
  \/ \E w \in WorkerIds, completes \in BOOLEAN :
       RunStep(w, "write", worker_write(Cur, w, completes),
               IF completes THEN "none" ELSE "save")
  \/ \E w \in WorkerIds : RunStep(w, "emit", worker_emit(Cur, w), "none")
  \/ \E w \in WorkerIds : WorkerExit(w)
  \/ DeliverSignal
  \/ \E f \in Memos : TouchSource(f) /\ UNCHANGED obsvars
  \/ \E f \in Memos : CorruptCache(f) /\ UNCHANGED obsvars

SpecWorker == Init /\ [][NextWorker]_vars

\* the steps of the worker threads: a started QThread is scheduled by the
\* operating system, and each of its steps returns
WorkerRuns ==
  \/ \E w \in WorkerIds, intact \in BOOLEAN : RunLookup(w, intact)
  \/ \E w \in WorkerIds, raises \in BOOLEAN, r \in FileRates : RunProbe(w, raises, r)
  \/ \E w \in WorkerIds, result \in {"ok", "empty"} :
       RunStep(w, "extract", worker_extract(Cur, w, result),
               IF result = "empty" THEN "extract" ELSE "none")
  \/ \E w \in WorkerIds, raises \in BOOLEAN :
       RunStep(w, "stft", worker_stft(Cur, w, raises),
               IF raises THEN "stft" ELSE "none")
  \/ \E w \in WorkerIds, raises \in BOOLEAN :
       RunStep(w, "filter", worker_filter(Cur, w, raises),
               IF raises THEN "filter" ELSE "none")
  \/ \E w \in WorkerIds, written \in BOOLEAN :
       RunStep(w, "save", worker_save(Cur, w, written),
               IF written THEN "none" ELSE "save")
  \/ \E w \in WorkerIds, completes \in BOOLEAN :
       RunStep(w, "write", worker_write(Cur, w, completes),
               IF completes THEN "none" ELSE "save")
  \/ \E w \in WorkerIds : RunStep(w, "emit", worker_emit(Cur, w), "none")

SpecWorkerFair == Init /\ [][NextWorker]_vars /\ WF_vars(WorkerRuns)

(***************************************************************************)
(* Live recording: RecordingController (src/controller/                    *)
(* recording_controller.py), AudioRecorder (src/model/audio_recorder.py)   *)
(* and AudioLevelMonitor (src/model/audio_level_monitor.py).  All of it    *)
(* runs on the GUI thread; the recorder's signals are direct connections.  *)
(* A level is written as the recording file it was measured from, a slice  *)
(* as the file its chunk was read from, each with its arrival number.      *)
(***************************************************************************)
max_spectrogram_slices == 200
waveform_maxlen == 1000
LIVE_N_FFT == 1024

\* mono samples in a chunk: the monitor reads at most 8192 bytes of 16-bit stereo
LiveChunkLens == {1, LIVE_N_FFT - 1, LIVE_N_FFT, LIVE_N_FFT + 1, 2 * LIVE_N_FFT}

None == [first |-> -1, count |-> 0]

\* a slice that is also computed from a chunk of exactly n_fft - 1 samples
compute_stft_slice_one_short(len, n_fft) ==
  IF len < n_fft - 1 THEN None
  ELSE [first |-> IF len < n_fft THEN 0 ELSE len - n_fft, count |-> n_fft]

\* AudioUtils.compute_stft_slice on a chunk of len samples: None, or the
\* slice of the samples first .. first + count - 1 of the chunk
compute_stft_slice(len, n_fft) ==
  IF len < n_fft THEN None
  ELSE [first |-> len - n_fft, count |-> n_fft]

\* the SpectrogramWidget's matrix while it is a live one
LiveMatrix(buffer) == [file |-> "live", hop |-> 0, slices |-> buffer]

RecCur ==
  [recorderState |-> recorderState, is_paused |-> is_paused,
   current_file |-> current_file, files |-> files,
   current_audio_level |-> current_audio_level,
   recording_file_path |-> recording_file_path, update_timer |-> update_timer,
   waveform_buffer |-> waveform_buffer, spectrogram_buffer |-> spectrogram_buffer,
   frequency_bins |-> frequency_bins, recording_buffer |-> recording_buffer,
   polls |-> polls, ticks |-> ticks, spectrogram |-> spectrogram]

RecBecomes(n) ==
  /\ recorderState' = n.recorderState
  /\ is_paused' = n.is_paused
  /\ current_file' = n.current_file
  /\ files' = n.files
  /\ current_audio_level' = n.current_audio_level
  /\ recording_file_path' = n.recording_file_path
  /\ update_timer' = n.update_timer
  /\ waveform_buffer' = n.waveform_buffer
  /\ spectrogram_buffer' = n.spectrogram_buffer
  /\ frequency_bins' = n.frequency_bins
  /\ recording_buffer' = n.recording_buffer
  /\ polls' = n.polls
  /\ ticks' = n.ticks
  /\ spectrogram' = n.spectrogram
  /\ UNCHANGED <<zoom_level, pan_offset, current_memo, waveform_data,
                 waveform_widget, spectrogram_worker, workers, queue, mainpc,
                 pending, cache, mtime, wfvars>>

\* AudioRecorder.is_active
is_active(s) == s.recorderState \in {"Recording", "Paused"}

\* deque(maxlen=1000).append: a full deque drops its oldest entry
waveform_append(buffer, x) ==
  IF Len(buffer) >= waveform_maxlen THEN Append(Tail(buffer), x)
  ELSE Append(buffer, x)

\* a slice buffer that drops the entry just appended when it is full
append_slice_drops_newest(buffer, x) ==
  LET appended == Append(buffer, x) IN
  IF Len(appended) > max_spectrogram_slices
  THEN SubSeq(appended, 1, Len(appended) - 1)
  ELSE appended

\* list.append, then pop(0) when the list is longer than the limit
append_slice(buffer, x) ==
  LET appended == Append(buffer, x) IN
  IF Len(appended) > max_spectrogram_slices THEN Tail(appended) ELSE appended

\* RecordingController._update_recording_status (the update timer's slot)
update_recording_status(s) ==
  IF is_active(s)
  THEN LET level == [session |-> s.current_audio_level, k |-> s.ticks + 1]
           buffer == waveform_append(s.waveform_buffer, level)
       IN [s EXCEPT !.waveform_buffer = buffer,
                    !.recording_buffer = buffer,
                    !.ticks = @ + 1]
  ELSE s

\* RecordingController._on_recording_started
on_recording_started(s) ==
  [s EXCEPT !.update_timer = TRUE,
            !.spectrogram_buffer = <<>>,
            !.frequency_bins = FALSE,
            !.spectrogram.is_recording = TRUE]

\* RecordingController._on_recording_stopped
on_recording_stopped(s) ==
  [s EXCEPT !.update_timer = FALSE,
            !.recording_buffer = <<>>,
            !.waveform_buffer = <<>>,
            !.spectrogram_buffer = <<>>,
            !.frequency_bins = FALSE,
            !.spectrogram.is_recording = FALSE]

\* RecordingController._on_error
on_error(s) ==
  [s EXCEPT !.update_timer = FALSE,
            !.recording_buffer = <<>>]

\* RecordingController._on_audio_samples_ready for a chunk of len samples
on_audio_samples_ready(s, len) ==
  LET magnitude_slice == compute_stft_slice(len, LIVE_N_FFT) IN
  IF magnitude_slice = None THEN s
  ELSE LET buffer == append_slice(s.spectrogram_buffer,
                                  [session |-> s.recording_file_path, k |-> s.polls])
       IN [s EXCEPT !.frequency_bins = TRUE,
                    !.spectrogram_buffer = buffer,
                    !.spectrogram.data = LiveMatrix(buffer)]

\* AudioLevelMonitor._poll_wav_file when the file holds len new mono samples:
\* the level (to AudioRecorder._on_level_changed), then the raw samples
poll_wav_file(s, len) ==
  on_audio_samples_ready(
    [s EXCEPT !.current_audio_level = s.recording_file_path,
              !.polls = @ + 1],
    len)

\* RecordingController.start_recording; started: QMediaRecorder.record()
\* enters RecordingState, otherwise it reports an error and stays stopped
start_recording(s, started) ==
  IF is_active(s) THEN s
  ELSE LET f == s.current_file + 1
           set == [s EXCEPT !.current_file = f, !.is_paused = FALSE]
           recorded == IF started
                       THEN on_recording_started(
                              [set EXCEPT !.recorderState = "Recording",
                                          !.files = @ \cup {f}])
                       ELSE on_error(set)
       IN [recorded EXCEPT !.recording_file_path = f,
                           !.recording_buffer = <<>>]

\* RecordingController.stop_recording
stop_recording(s) ==
  IF ~is_active(s) THEN s
  ELSE [on_recording_stopped([s EXCEPT !.recorderState = "Stopped"])
          EXCEPT !.recording_file_path = 0,
                 !.current_audio_level = 0]

\* RecordingController.pause_recording: pause, or resume
pause_recording(s) ==
  IF s.recorderState = "Recording"
  THEN [s EXCEPT !.recorderState = "Paused", !.is_paused = TRUE]
  ELSE IF s.is_paused /\ s.recorderState = "Paused"
  THEN [s EXCEPT !.recorderState = "Recording", !.is_paused = FALSE]
  ELSE s

\* QMediaRecorder.errorOccurred during a recording; stops: the recorder also
\* ends the recording (recorderStateChanged to StoppedState)
recorder_error(s, stops) ==
  IF stops
  THEN on_recording_stopped([on_error(s) EXCEPT !.recorderState = "Stopped"])
  ELSE on_error(s)

StartRecording(started, sessions) ==
  /\ current_file < sessions
  /\ RecBecomes(start_recording(RecCur, started))
  /\ call' = [op |-> IF is_active(RecCur) THEN "none"
                     ELSE IF started THEN "started" ELSE "start_failed",
              len |-> 0, slice |-> None]
  /\ UNCHANGED <<emits, prev>>

StopRecording ==
  /\ RecBecomes(stop_recording(RecCur))
  /\ call' = [op |-> IF is_active(RecCur) THEN "stopped" ELSE "none",
              len |-> 0, slice |-> None]
  /\ UNCHANGED <<emits, prev>>

PauseRecording ==
  /\ RecBecomes(pause_recording(RecCur))
  /\ call' = [op |-> "pause", len |-> 0, slice |-> None]
  /\ UNCHANGED <<emits, prev>>

RecorderError(stops) ==
  /\ is_active(RecCur)
  /\ RecBecomes(recorder_error(RecCur, stops))
  /\ call' = [op |-> IF stops THEN "stopped" ELSE "error", len |-> 0, slice |-> None]
  /\ UNCHANGED <<emits, prev>>

\* the update timer fires
UpdateTick(limit) ==
  /\ update_timer
  /\ ticks < limit
  /\ RecBecomes(update_recording_status(RecCur))
  /\ call' = [op |-> "tick", len |-> 0, slice |-> None]
  /\ UNCHANGED <<emits, prev>>

\* the poll timer fires and the monitored file holds audio
PollTick(len, limit) ==
  /\ recording_file_path # 0
  /\ recording_file_path \in files
  /\ polls < limit
  /\ RecBecomes(poll_wav_file(RecCur, len))
  /\ call' = [op |-> "samples", len |-> len,
              slice |-> compute_stft_slice(len, LIVE_N_FFT)]
  /\ UNCHANGED <<emits, prev>>

NextRecording ==
  \/ \E started \in BOOLEAN : StartRecording(started, MaxSessions)
  \/ StopRecording
  \/ PauseRecording
  \/ \E stops \in BOOLEAN : RecorderError(stops)
  \/ UpdateTick(MaxTicks)
  \/ \E len \in LiveChunkLens : PollTick(len, MaxPolls)

SpecRecording == Init /\ [][NextRecording]_vars

\* one long recording: full chunks, and levels once the first one was measured
NextLive ==
  \/ StartRecording(TRUE, 1)
  \/ current_audio_level # 0 /\ UpdateTick(LiveTicks)
  \/ PollTick(2 * LIVE_N_FFT, LivePolls)

SpecLive == Init /\ [][NextLive]_vars

(***************************************************************************)
(* Both controllers on the one spectrogram widget of the main window: memo *)
(* loads and their workers beside one recording.  Every handler runs in    *)
(* the GUI thread, so a recording handler runs only while that is idle.    *)
(***************************************************************************)
NextShared ==
  \/ \E memo \in Memos, ok \in BOOLEAN, wf_ok \in BOOLEAN : LoadMemo(memo, ok, wf_ok)
  \/ \E ok \in BOOLEAN, wf_ok \in BOOLEAN : LoadMemoResume(ok, wf_ok)
  \/ DeliverSignal
  \/ WorkerSteps
  \/ mainpc = "idle" /\ \E started \in BOOLEAN : StartRecording(started, 1)
  \/ mainpc = "idle" /\ StopRecording
  \/ mainpc = "idle" /\ PollTick(2 * LIVE_N_FFT, 1)

SpecShared == Init /\ [][NextShared]_vars

(***************************************************************************)
(* AudioUtils.compute_stft (src/utils/audio_utils.py): the number of time  *)
(* bins of scipy.signal.stft as it is called there, with the defaults      *)
(* boundary='zeros' and padded=True.                                       *)
(***************************************************************************)
FiveSeconds == 80000
Raised == -1

\* N samples, window n_fft, hop_length: the number of columns of Zxx
compute_stft_bins(N, n_fft, hop_length) ==
  LET nperseg == IF n_fft > N THEN N ELSE n_fft       \* window cut to the input
      noverlap == n_fft - hop_length
      nstep == nperseg - noverlap
      extended == N + 2 * (nperseg \div 2)            \* boundary='zeros'
      nadd == ((-(extended - nperseg)) % nstep) % nperseg   \* padded=True
  IN IF noverlap >= nperseg THEN Raised               \* ValueError
     ELSE (extended + nadd - noverlap) \div nstep

StftLens ==
  {FiveSeconds} \cup
  {k * 128 + d : k \in 1..MaxFrames, d \in {-1, 0, 1}}

CallComputeStft(N, n_fft, hop_length) ==
  /\ Becomes(Cur)
  /\ call' = [op |-> "stft", N |-> N, n_fft |-> n_fft, hop_length |-> hop_length,
              bins |-> compute_stft_bins(N, n_fft, hop_length)]
  /\ UNCHANGED <<emits, prev>>

NextStft ==
  \E N \in StftLens, i \in 1..Len(hop_lengths) :
    CallComputeStft(N, N_FFT, hop_lengths[i])

SpecStft == Init /\ [][NextStft]_vars

(***************************************************************************)
(* WaveformData: the waveform of an audio file and its cache file, called  *)
(* for the files of one directory, with an observer of each call.          *)
(***************************************************************************)
MaxVersion == 2
WfResolutions == {1014, 2028}
\* samples of a file at 4 kHz: a quarter of a second, and two seconds
WfSamples == {1014, 8000}

\* _get_cache_path: <parent>/.waveform_cache/<stem>.wfcache
get_cache_path(f) == "m1.wfcache"

\* FFmpegWrapper.extract_waveform_data: the amplitudes of the current content
\* of f, downsampled to resolution points when it has more samples; wf_ok:
\* FFmpeg succeeded
extract_waveform_data(srcs, f, resolution, wf_ok) ==
  IF ~wf_ok THEN NoArray
  ELSE [file |-> f, version |-> srcs[f].version, resolution |-> resolution,
        len |-> IF srcs[f].samples > resolution THEN resolution
                ELSE srcs[f].samples]

\* cache_waveform at clock reading now; written: the file was written
cache_waveform(wcache, f, waveform, resolution, written, now) ==
  IF written
  THEN [wcache EXCEPT ![get_cache_path(f)] =
          [exists |-> TRUE, cache_mtime |-> now, waveform |-> waveform,
           resolution |-> resolution]]
  ELSE wcache

\* a lookup that also compares the cached array with the content of the file
waveform_load_from_cache_same_content(srcs, wcache, f, intact) ==
  LET entry == wcache[get_cache_path(f)] IN
  IF ~entry.exists THEN NoArray
  ELSE IF entry.cache_mtime < srcs[f].mtime THEN NoArray
  ELSE IF ~intact THEN NoArray
  ELSE IF entry.waveform.file # f \/ entry.waveform.version # srcs[f].version
       THEN NoArray
  ELSE entry.waveform

\* load_from_cache; intact: pickle.load does not raise
waveform_load_from_cache(srcs, wcache, f, intact) ==
  LET entry == wcache[get_cache_path(f)] IN
  IF ~entry.exists THEN NoArray
  ELSE IF entry.cache_mtime < srcs[f].mtime THEN NoArray
  ELSE IF ~intact THEN NoArray
  ELSE entry.waveform

\* extract_waveform of WaveformData(f): the array returned, whether it came
\* from the cache, and the cache srcs afterwards
extract_waveform(srcs, wcache, f, resolution, intact, wf_ok, written, now) ==
  LET cached == waveform_load_from_cache(srcs, wcache, f, intact)
      waveform == extract_waveform_data(srcs, f, resolution, wf_ok)
  IN IF cached # NoArray /\ cached.len = resolution
     THEN [result |-> cached, from_cache |-> TRUE, cache |-> wcache]
     ELSE [result |-> waveform, from_cache |-> FALSE,
           cache |-> IF waveform # NoArray
                     THEN cache_waveform(wcache, f, waveform, resolution, written, now)
                     ELSE wcache]

CallExtractWaveform(f, resolution, intact, wf_ok, written, now) ==
  \E r \in {extract_waveform(audio_files, waveform_cache, f, resolution, intact,
                              wf_ok, written, now)} :
    /\ waveform_cache' = r.cache
    /\ call' = [op |-> "extract_waveform", file |-> f, resolution |-> resolution,
                version |-> audio_files[f].version, from_cache |-> r.from_cache,
                result |-> r.result]
    /\ UNCHANGED <<zoom_level, pan_offset, ctlvars, recvars, audio_files, emits, prev>>

\* the file is replaced or edited: new content, of any length and with any
\* modification time (a copy keeps the time of its original)
ModifyAudioFile(f, m, samples) ==
  /\ audio_files[f].version < MaxVersion
  /\ audio_files' = [audio_files EXCEPT ![f] =
                       [mtime |-> m, version |-> audio_files[f].version + 1,
                        samples |-> samples]]
  /\ UNCHANGED <<zoom_level, pan_offset, ctlvars, recvars, waveform_cache, obsvars>>

\* a cache file is written after the source was read: its time is not before
\* the modification time of the source
NextWaveform ==
  \/ \E f \in AudioFiles, resolution \in WfResolutions, intact \in BOOLEAN,
        wf_ok \in BOOLEAN, written \in BOOLEAN :
        \E now \in {c \in Clock : c >= audio_files[f].mtime} :
          CallExtractWaveform(f, resolution, intact, wf_ok, written, now)
  \/ \E f \in AudioFiles, m \in Clock, samples \in WfSamples :
        ModifyAudioFile(f, m, samples)

SpecWaveform == Init /\ [][NextWaveform]_vars

(***************************************************************************)
(* Properties of the worker lifecycle (checked under Spec).                *)
(***************************************************************************)
\* the workers whose run() still has steps to execute; a worker that has
\* emitted its last signal and is about to return is not counted, so two
\* members are two run() bodies executing at the same time
Running == {w \in WorkerIds : workers[w].pc \notin {"none", "ret", "finished"}}

\* C1: in every reachable state at most one SpectrogramWorker thread is
\* running; a new worker is started only after every earlier one has ended.
AtMostOneWorkerRunning == Cardinality(Running) <= 1

\* C2: whenever the GUI thread gives a worker's result to the spectrogram
\* surface (the slot of computation_finished runs), the sender of that result
\* is the worker the controller currently tracks.
OnlyTrackedResultApplied ==
  [][(/\ mainpc = "idle"
      /\ queue # <<>>
      /\ queue' = Tail(queue)
      /\ Head(queue).sig = "computation_finished")
     => Head(queue).w = spectrogram_worker]_vars

\* C3: once cancel() has been called on a worker, no later step of that worker
\* writes the cache or emits computation_finished.
NoWorkAfterCancel ==
  [][\A w \in WorkerIds :
       workers[w].cancelled =>
         /\ workers'[w].out = "computation_finished"
              => workers[w].out = "computation_finished"
         /\ workers'[w].stored => workers[w].stored]_vars

\* C4: a run that ended because cancel() was called has emitted neither
\* computation_finished nor computation_failed, so no failure is queued for
\* the controller's _on_spectrogram_failed.
CancelIsNotAnError ==
  \A w \in WorkerIds : workers[w].reason = "cancelled" => workers[w].out = "none"

\* C5: while no memo is loaded and the GUI thread is not inside a handler
\* (initially, and from the return of unload() to the next successful
\* load_memo), no worker is running and the surface holds no worker result.
NothingOutlivesUnload ==
  (current_memo = NoMemo /\ mainpc = "idle")
    => (Running = {} /\ spectrogram.data = NoData)

(***************************************************************************)
(* Properties of the viewport (checked under SpecViewport).                *)
(***************************************************************************)
Count(sig) == Cardinality({i \in 1..Len(emits) : emits[i].sig = sig})
ZoomChanged == call.op = "set_zoom" /\ zoom_level # call.pre_zoom
MaxPan(z) == RSub(R(1), visible_duration(z))

\* C6: after any sequence of set_zoom, set_pan and reset calls, zoom_level is
\* in [1, 50] and 0 <= pan_offset <= 1 - visible_duration, hence
\* pan_offset + visible_duration <= 1.
ViewportInvariant ==
  /\ RLe(R(1), zoom_level) /\ RLe(zoom_level, R(50))
  /\ RLe(R(0), pan_offset) /\ RLe(pan_offset, MaxPan(zoom_level))
  /\ RLe(RAdd(pan_offset, visible_duration(zoom_level)), R(1))

\* a set_zoom beyond the maximum, centred beyond the end: both are clamped
ViewportClampedWitness ==
  /\ call.op = "set_zoom" /\ call.a1 = R(60) /\ RLt(R(1), call.a2)
  /\ zoom_level = R(50) /\ pan_offset = MaxPan(zoom_level)

\* C7: a set_zoom call that changes the zoom emits viewport_changed exactly
\* once, and zoom_level_changed (carrying the new zoom) exactly once if the
\* tier changed and not at all otherwise; at every emit zoom_level and
\* pan_offset already hold their new values.
ZoomSignals ==
  ZoomChanged =>
    /\ Count("viewport_changed") = 1
    /\ Count("zoom_level_changed") =
         (IF get_resolution_tier(call.pre_zoom) # get_resolution_tier(zoom_level)
          THEN 1 ELSE 0)
    /\ Len(emits) = Count("viewport_changed") + Count("zoom_level_changed")
    /\ \A i \in 1..Len(emits) :
         /\ emits[i].zoom_at = zoom_level
         /\ emits[i].pan_at = pan_offset
         /\ emits[i].sig = "zoom_level_changed" => emits[i].arg = zoom_level

\* a zoom change from tier 0 to tier 3: both signals, in this order
ZoomSignalsWitness ==
  /\ ZoomChanged
  /\ get_resolution_tier(call.pre_zoom) = 0 /\ get_resolution_tier(zoom_level) = 3
  /\ Len(emits) = 2
  /\ emits[1].sig = "viewport_changed" /\ emits[2].sig = "zoom_level_changed"

\* C8: set_zoom whose clamped zoom equals the current zoom, and set_pan whose
\* clamped offset equals the current pan, change neither zoom_level nor
\* pan_offset and emit nothing, whatever the center time.
NoOpCalls ==
  /\ (call.op = "set_zoom" /\ RClip(call.a1, R(1), R(50)) = call.pre_zoom)
       => (zoom_level = call.pre_zoom /\ pan_offset = call.pre_pan /\ emits = <<>>)
  /\ (call.op = "set_pan"
        /\ RClip(call.a1, R(0), RMax(R(0), MaxPan(call.pre_zoom))) = call.pre_pan)
       => (zoom_level = call.pre_zoom /\ pan_offset = call.pre_pan /\ emits = <<>>)

\* set_zoom(60, t) at zoom 50 with t at the left edge of a panned viewport
NoOpWitness ==
  /\ call.op = "set_zoom" /\ call.a1 = R(60) /\ call.pre_zoom = R(50)
  /\ RLt(R(0), call.pre_pan) /\ call.a2 = R(0)
  /\ emits = <<>>

\* where time t sits in the viewport (z, p), as a fraction of its width
FractionAt(z, p, t) == RDiv(RSub(t, p), visible_duration(z))
\* the pan offset that keeps call.a2 at its old fraction under the new zoom
IdealPan ==
  RSub(call.a2,
       RMul(FractionAt(call.pre_zoom, call.pre_pan, call.a2),
            visible_duration(zoom_level)))
Unclamped == RLe(R(0), IdealPan) /\ RLe(IdealPan, MaxPan(zoom_level))

\* C9: after set_zoom(z, t) changed the zoom, with t inside the old viewport,
\* t is at the same fraction of the viewport width as before unless the new
\* pan offset had to be clamped; and screen_to_time(time_to_screen(t, W), W) = t
\* for every width W > 0.
ZoomCentering ==
  (ZoomChanged /\ is_time_visible(call.pre_zoom, call.pre_pan, call.a2))
    => /\ Unclamped =>
            FractionAt(zoom_level, pan_offset, call.a2)
              = FractionAt(call.pre_zoom, call.pre_pan, call.a2)
       /\ \A W \in Widths :
            screen_to_time(zoom_level, pan_offset,
                           time_to_screen(zoom_level, pan_offset, call.a2, W), W)
              = call.a2

\* a zoom about a time at the right edge of the old viewport, not clamped
ZoomCenteringWitness ==
  /\ ZoomChanged /\ is_time_visible(call.pre_zoom, call.pre_pan, call.a2)
  /\ FractionAt(call.pre_zoom, call.pre_pan, call.a2) = R(1)
  /\ RLt(R(0), IdealPan) /\ RLt(IdealPan, MaxPan(zoom_level))

\* C10: reset() leaves zoom_level = 1 and pan_offset = 0 and emits
\* viewport_changed at most once, and not at all at (1, 0); a second reset()
\* right after one changes nothing and emits nothing, so two in a row emit at
\* most once in total.
ResetIdempotent ==
  call.op = "reset" =>
    /\ zoom_level = R(1) /\ pan_offset = R(0)
    /\ Len(emits) <= 1
    /\ (call.pre_zoom = R(1) /\ call.pre_pan = R(0)) => emits = <<>>
    /\ prev.op = "reset" =>
         /\ call.pre_zoom = zoom_level /\ call.pre_pan = pan_offset
         /\ Len(emits) + prev.n_emits <= 1

\* two resets in a row, the first of which changed the viewport
ResetTwiceWitness ==
  call.op = "reset" /\ prev.op = "reset" /\ prev.n_emits = 1 /\ emits = <<>>

(***************************************************************************)
(* Properties of the resolution tiers (checked under SpecViewport).        *)
(***************************************************************************)
\* zoom values on both sides of every threshold
TierZooms ==
  {R(1), Frac(19, 10), R(2), Frac(49, 10), R(5), Frac(999, 100), R(10), R(50)}
\* the number of thresholds at or below z
StepTier(z) == Cardinality({th \in {2, 5, 10} : RLe(R(th), z)})

\* C11: the tier of a zoom is the number of thresholds 2, 5, 10 at or below it
\* (0 below 2, 1 in [2, 5), 2 in [5, 10), 3 from 10 on), so it never decreases
\* as zoom grows; the recommended resolution and hop length are functions of
\* the tier, the resolution never decreasing and the hop length never
\* increasing as zoom grows.
TierStepFunction ==
  /\ get_resolution_tier(zoom_level) = StepTier(zoom_level)
  /\ get_resolution_tier(call.a1) = StepTier(call.a1)
  /\ \A z \in TierZooms \cup {call.pre_zoom, call.a1} :
       /\ get_resolution_tier(z) = StepTier(z)
       /\ get_resolution_tier(z) = get_resolution_tier(zoom_level)
            => /\ get_recommended_resolution(z) = get_recommended_resolution(zoom_level)
               /\ get_recommended_hop_length(z) = get_recommended_hop_length(zoom_level)
       /\ RLe(z, zoom_level)
            => /\ get_resolution_tier(z) <= get_resolution_tier(zoom_level)
               /\ get_recommended_resolution(z) <= get_recommended_resolution(zoom_level)
               /\ get_recommended_hop_length(z) >= get_recommended_hop_length(zoom_level)
       /\ RLe(zoom_level, z)
            => /\ get_resolution_tier(zoom_level) <= get_resolution_tier(z)
               /\ get_recommended_resolution(zoom_level) <= get_recommended_resolution(z)
               /\ get_recommended_hop_length(zoom_level) >= get_recommended_hop_length(z)

\* set_zoom from below the first threshold to exactly 2.0: tier 0 to tier 1
TierThresholdWitness ==
  /\ call.op = "set_zoom" /\ call.pre_zoom = Frac(3, 2) /\ zoom_level = R(2)
  /\ get_resolution_tier(call.pre_zoom) = 0 /\ get_resolution_tier(zoom_level) = 1
  /\ get_recommended_hop_length(zoom_level) = 512

(***************************************************************************)
(* Properties of the cache (checked under SpecCache).                      *)
(***************************************************************************)
\* the last load was made with the key of the last store
SameKey ==
  /\ call.file = prev.file /\ call.file_mtime = prev.file_mtime
  /\ call.n_fft = prev.n_fft /\ call.hop_length = prev.hop_length
  /\ call.freq_min = prev.freq_min /\ call.freq_max = prev.freq_max
StoreThenLoad == call.op = "load" /\ prev.op = "store" /\ call.file = prev.file

\* C12 as stated: after a store under key K, a load with an identical K returns
\* exactly the stored spectrogram, and a load with any key field changed is a
\* miss.
CacheRoundTripAlways ==
  StoreThenLoad =>
    /\ SameKey => (call.hit /\ call.data = prev.data)
    /\ ~SameKey => ~call.hit

\* C12 amended: after a store under key K into a cache file whose own
\* modification time is not earlier than the source file's, a load with an
\* identical K returns exactly the stored spectrogram; a load with any one of
\* the five key fields changed is a miss, and a hit never returns a
\* spectrogram of another hop length.
CacheRoundTrip ==
  StoreThenLoad =>
    /\ (SameKey /\ prev.now >= prev.file_mtime) => (call.hit /\ call.data = prev.data)
    /\ ~SameKey => ~call.hit
    /\ call.hit => call.data.hop = call.hop_length

\* a store at hop 512 followed by a load of the same key: a hit with that data
CacheRoundTripWitness ==
  /\ StoreThenLoad /\ SameKey /\ prev.hop_length = 512
  /\ call.hit /\ call.data = Spectrogram(call.file, 512)

(***************************************************************************)
(* Properties of one run of the worker (checked under SpecWorker).         *)
(***************************************************************************)
Misses == {"absent", "stale", "corrupt", "mismatch"}
ComputeFaults == {"probe", "extract", "stft", "filter"}
RunEnded == call.op = "run" /\ Running = {}
Emitted(sig) == \E i \in 1..Len(emits) : emits[i] = sig

\* C13: a lookup that finds the cache file absent, older than the source,
\* unreadable or of another key emits no computation_failed by itself: the
\* worker goes on to recompute, and when no later step fails and the worker is
\* not cancelled the run ends with exactly one computation_finished.
CacheMissRecomputes ==
  (call.op = "run" /\ call.outcome \in Misses
     /\ call.faults \cap (ComputeFaults \cup {"cancel"}) = {}) =>
    /\ ~Emitted("computation_failed")
    /\ workers[call.w].pc = "probe" => emits = <<>>
    /\ RunEnded => emits = <<"computation_finished">>

\* a run whose lookup found a corrupt cache file and ended as completed
CacheMissRecomputesWitness ==
  /\ RunEnded /\ call.outcome = "corrupt" /\ call.faults = {}
  /\ emits = <<"computation_finished">>
  /\ cache[prev.file].readable /\ ~prev.cache.readable

\* C14: when the store of the computed spectrogram fails, the worker still
\* emits computation_finished with the computed result and emits no
\* computation_failed.
CacheWriteFailureNonFatal ==
  (call.op = "run" /\ "save" \in call.faults) =>
    /\ ~Emitted("computation_failed")
    /\ workers[call.w].pc = "emit" \/ emits = <<"computation_finished">>
    /\ \A i \in 1..Len(queue) :
         /\ queue[i].sig = "computation_finished"
         /\ queue[i].data \in {Spectrogram(prev.file, h) : h \in CacheHops}

\* a run whose store failed, ended, and whose result reached the surface
CacheWriteFailureWitness ==
  /\ RunEnded /\ "save" \in call.faults /\ queue = <<>>
  /\ emits = <<"computation_finished">>
  /\ spectrogram.data # NoData /\ ~spectrogram.is_loading
  /\ cache[prev.file] = prev.cache

\* the cache file of the run is as it was at dispatch, or was damaged since
CacheUntouched ==
  \/ cache[prev.file] = prev.cache
  \/ cache[prev.file] = [prev.cache EXCEPT !.readable = FALSE]

NextSteps(pc) ==
  CASE pc = "lookup" -> {"probe", "ret"}
    [] pc = "probe" -> {"extract", "ret"}
    [] pc = "extract" -> {"stft", "ret"}
    [] pc = "stft" -> {"filter", "ret"}
    [] pc = "filter" -> {"save", "ret"}
    [] pc = "save" -> {"write", "emit"}
    [] pc = "write" -> {"emit"}
    [] pc = "emit" -> {"ret"}
    [] pc = "ret" -> {"finished"}
    [] OTHER -> {}

\* worker w publishes data in this step, and nothing else is emitted
Publishes(w, data) ==
  queue' = Append(queue, Signal("computation_finished", w, data))

\* one step of the observed run, from position a to position b
WorkerStepInOrder ==
  LET w == call.w
      a == workers[w]
      b == workers'[w]
  IN (call.op = "run" /\ call'.op = "run" /\ a.pc # b.pc /\ b.pc # "none") =>
       /\ b.pc \in (IF a.pc = "none" THEN {"lookup"} ELSE NextSteps(a.pc))
       /\ (a.pc = "lookup" /\ call'.outcome = "hit") =>
            /\ b.pc = "ret"
            /\ Publishes(w, cache[a.file].spectrogram)
            /\ cache[a.file].hop_length = a.hop_length
            /\ cache' = cache
       /\ (a.pc = "lookup" /\ call'.outcome # "hit") => (b.pc = "probe" /\ queue' = queue)
       /\ (a.pc = "extract" /\ b.pc = "stft") =>
            a.sample_rate = (IF call.rate < 16000 THEN call.rate ELSE 16000)
       /\ cache' # cache => a.pc \in {"save", "write"}
       /\ a.pc = "emit" => Publishes(w, Spectrogram(a.file, a.hop_length))
       /\ a.pc \in {"save", "write"} => queue' = queue

\* C22: a worker run performs its steps in a fixed order: the cache lookup with
\* the worker's own parameters comes first; on a hit it publishes the cached
\* data without extracting, computing or writing the cache; on a miss it
\* extracts at min(native rate, 16000), computes the STFT and the filter,
\* stores to the cache and only then publishes the computed result.
WorkerStepsInOrder == [][WorkerStepInOrder]_vars

\* a run of a 48 kHz file that missed the cache, extracted at 16 kHz, stored
\* its result and stands at the publish
WorkerStepsInOrderWitness ==
  /\ call.op = "run" /\ call.outcome = "absent" /\ call.rate = 48000
  /\ workers[call.w].pc = "emit" /\ workers[call.w].sample_rate = 16000
  /\ workers[call.w].stored /\ emits = <<>>
  /\ cache[prev.file].spectrogram = Spectrogram(prev.file, workers[call.w].hop_length)

\* the terminal signals of the observed run so far are those of one outcome
OneOutcome ==
  /\ emits \in {<<>>, <<"computation_finished">>, <<"computation_failed">>}
  /\ (RunEnded /\ emits = <<>>) => "cancel" \in call.faults

\* C23: every started worker run terminates, when each of its steps returns, in
\* exactly one of Completed, Failed or Cancelled: it emits exactly one
\* computation_finished, or exactly one computation_failed, or (cancelled) no
\* terminal signal, and never both signals or the same signal twice.
RunTerminatesInOneOutcome ==
  /\ []OneOutcome
  /\ (call.op = "run" /\ Running # {}) ~> RunEnded

\* a cancelled run that ended without a terminal signal
RunTerminatesWitness ==
  /\ RunEnded /\ "cancel" \in call.faults /\ emits = <<>>
  /\ workers[call.w].reason = "cancelled"

(***************************************************************************)
(* Properties of the live buffers (checked under SpecLive and              *)
(* SpecRecording).                                                         *)
(***************************************************************************)
\* buffer after an append of its newest entry: the old entries in order, less
\* the oldest one when the buffer was full
AppendedFifo(old, new, capacity) ==
  /\ new # <<>>
  /\ IF Len(old) = capacity
     THEN Len(new) = capacity /\ \A i \in 1..(capacity - 1) : new[i] = old[i + 1]
     ELSE Len(new) = Len(old) + 1 /\ \A i \in 1..Len(old) : new[i] = old[i]

SliceAppended ==
  polls' = polls + 1 =>
    /\ AppendedFifo(spectrogram_buffer, spectrogram_buffer', max_spectrogram_slices)
    /\ spectrogram_buffer'[Len(spectrogram_buffer')].k = polls'

LevelAppended ==
  ticks' = ticks + 1 =>
    /\ AppendedFifo(waveform_buffer, waveform_buffer', waveform_maxlen)
    /\ waveform_buffer'[Len(waveform_buffer')].k = ticks'

\* C16: the live spectrogram buffer never holds more than 200 slices and the
\* live level buffer never more than 1000 levels; every append puts the new
\* entry last, keeps the earlier entries in arrival order and, when the buffer
\* was full, drops exactly the oldest one.
LiveBuffersBounded ==
  /\ [](Len(spectrogram_buffer) <= max_spectrogram_slices
        /\ Len(waveform_buffer) <= waveform_maxlen)
  /\ [][SliceAppended /\ LevelAppended]_vars

\* both buffers full, each having dropped its two oldest entries
LiveBuffersFullWitness ==
  /\ Len(spectrogram_buffer) = max_spectrogram_slices
  /\ spectrogram_buffer[1].k = 3 /\ polls = max_spectrogram_slices + 2
  /\ Len(waveform_buffer) = waveform_maxlen
  /\ waveform_buffer[1].k = 3 /\ ticks = waveform_maxlen + 2

\* what the two surfaces show of the live buffers
ShownSlices ==
  IF spectrogram.data.file = "live" THEN spectrogram.data.slices ELSE <<>>
ShownSessions ==
  {ShownSlices[i].session : i \in 1..Len(ShownSlices)}
    \cup {recording_buffer[i].session : i \in 1..Len(recording_buffer)}
    \cup {waveform_buffer[i].session : i \in 1..Len(waveform_buffer)}
    \cup {spectrogram_buffer[i].session : i \in 1..Len(spectrogram_buffer)}

\* C17: both live buffers are empty right after a recording starts and right
\* after it stops, and while a recording is active nothing measured from an
\* earlier recording is held or shown.
LiveBuffersFresh ==
  /\ call.op \in {"started", "stopped"}
       => (waveform_buffer = <<>> /\ spectrogram_buffer = <<>>)
  /\ recorderState # "Stopped" => ShownSessions \subseteq {0, current_file}

\* the buffers themselves are empty right after every start and stop
LiveBuffersEmptied ==
  call.op \in {"started", "stopped"}
    => (waveform_buffer = <<>> /\ spectrogram_buffer = <<>>)

\* C18: compute_stft_slice returns None exactly when the chunk has fewer than
\* n_fft samples and otherwise takes the last n_fft samples of the chunk; on
\* None the handler leaves the slice buffer, the frequency bins and the
\* spectrogram surface as they were, otherwise it appends one slice.
ShortChunkSkipped ==
  [][polls' = polls + 1 =>
       /\ call'.op = "samples"
       /\ (call'.len < LIVE_N_FFT) <=> (call'.slice = None)
       /\ call'.slice # None
            => /\ call'.slice.count = LIVE_N_FFT
               /\ call'.slice.first + call'.slice.count = call'.len
               /\ spectrogram_buffer' # <<>>
               /\ spectrogram_buffer'[Len(spectrogram_buffer')].k = polls'
               /\ spectrogram'.data = LiveMatrix(spectrogram_buffer')
               /\ frequency_bins'
       /\ call'.slice = None
            => UNCHANGED <<spectrogram_buffer, frequency_bins, spectrogram>>]_vars

\* a chunk one sample short arrived after a slice and changed nothing
ShortChunkSkippedWitness ==
  /\ call.op = "samples" /\ call.len = LIVE_N_FFT - 1 /\ call.slice = None
  /\ polls = 2 /\ Len(spectrogram_buffer) = 1 /\ spectrogram_buffer[1].k = 1
  /\ spectrogram.data = LiveMatrix(spectrogram_buffer)

(***************************************************************************)
(* Properties of compute_stft (checked under SpecStft).                    *)
(***************************************************************************)
CeilDiv(a, b) == (a + b - 1) \div b

\* C19: for N >= n_fft samples compute_stft yields
\* ceil((N - n_fft) / hop_length) + 1 time bins; for 80000 samples with
\* n_fft = hop_length = 1024 that is about 78, the count the resolution table
\* is built on (78 x 13 = 1014 waveform samples at tier 0).
StftBins ==
  (call.op = "stft" /\ call.N >= call.n_fft) =>
    /\ call.bins = CeilDiv(call.N - call.n_fft, call.hop_length) + 1
    /\ (call.N = FiveSeconds /\ call.hop_length = 1024)
         => (call.bins \in {78, 79} /\ resolutions[1] = 13 * 78)

\* what the call of the code yields: one bin per hop of the input, and one
StftBinsOfTheCode ==
  (call.op = "stft" /\ call.N >= call.n_fft) =>
    call.bins = CeilDiv(call.N, call.hop_length) + 1

(***************************************************************************)
(* Properties of the tier-change handler (checked under SpecZoom).         *)
(***************************************************************************)
TierChangeEvent == call' # call
HandlerReturns == mainpc = "async_wait" /\ mainpc' = "idle"
NewHop == get_recommended_hop_length(zoom_level')
NewResolution == get_recommended_resolution(zoom_level')

\* the waveform is extracted again at the resolution of the new zoom
WaveformReextracted ==
  /\ waveform_data' = current_memo
  /\ waveform_widget' \in {NoWaveform, Waveform(current_memo, NewResolution)}

\* one new worker, for the memo and the hop length of the new zoom, and alone
OneWorkerDispatched(file, hop_length) ==
  /\ spectrogram_worker' # 0
  /\ workers'[spectrogram_worker'] = NewWorker(file, hop_length)
  /\ {w \in WorkerIds : workers'[w].pc \notin {"none", "ret", "finished"}}
       = {spectrogram_worker'}

TierChangeStep ==
  /\ (TierChangeEvent /\ current_memo # NoMemo) =>
       /\ WaveformReextracted
       /\ \A w \in Running : workers'[w].cancelled
       /\ IF ~worker_is_running(Cur)
          THEN OneWorkerDispatched(current_memo, NewHop)
          ELSE /\ mainpc' = "async_wait"
               /\ pending' = [file |-> current_memo, hop |-> NewHop]
               /\ \A w \in WorkerIds : workers'[w].pc = workers[w].pc
  /\ HandlerReturns => OneWorkerDispatched(pending.file, pending.hop)
  /\ (TierChangeEvent /\ current_memo = NoMemo) =>
       UNCHANGED <<workers, spectrogram_worker, mainpc, waveform_widget>>

\* C20: with a memo loaded, a zoom_level_changed event cancels every worker
\* that is still computing and waits for it, extracts the waveform again at the recommended
\* resolution within the handler, and dispatches exactly one new worker with
\* the recommended hop length of the new zoom; with no memo loaded it starts
\* no worker.
TierChangeRedispatches ==
  [][TierChangeStep]_vars

\* the same with "the worker the controller tracks" for "every running worker"
TrackedTierChangeStep ==
  /\ (TierChangeEvent /\ current_memo # NoMemo) =>
       /\ WaveformReextracted
       /\ IF ~worker_is_running(Cur)
          THEN /\ spectrogram_worker' # 0
               /\ workers'[spectrogram_worker'] = NewWorker(current_memo, NewHop)
          ELSE /\ workers'[spectrogram_worker].cancelled
               /\ mainpc' = "async_wait"
               /\ pending' = [file |-> current_memo, hop |-> NewHop]
               /\ \A w \in WorkerIds : workers'[w].pc = workers[w].pc
  /\ HandlerReturns =>
       /\ ~worker_is_running(Cur)
       /\ workers'[spectrogram_worker'] = NewWorker(pending.file, pending.hop)
  /\ (TierChangeEvent /\ current_memo = NoMemo) =>
       UNCHANGED <<workers, spectrogram_worker, mainpc, waveform_widget>>

TierChangeRedispatchesTracked ==
  [][TrackedTierChangeStep]_vars

(***************************************************************************)
(* Properties of the cache file under concurrent workers (checked under    *)
(* Spec).                                                                  *)
(***************************************************************************)
\* the workers inside _save_to_cache with the cache file of f open for writing
Writers(f) == {w \in WorkerIds : workers[w].pc = "write" /\ workers[w].file = f}

\* C24: at any time at most one worker is writing the spectrogram cache file of
\* a given source audio file: two runs never execute _save_to_cache on the same
\* cache file concurrently, for any interleaving of memo loads, tier changes
\* and worker completions.
OneCacheWriter == \A f \in Memos : Cardinality(Writers(f)) <= 1

\* the cache file exists and holds no complete entry: what open(.., "wb")
\* leaves until the dump has written the whole pickle
PartiallyWritten(entry) == entry.exists /\ entry.spectrogram = NoData

\* C25: cache writes are atomic with respect to readers: a reader that loads
\* the cache file while a store is in progress finds the complete previous
\* entry, no entry, or the complete new entry, never a partially written file.
AtomicCacheWrites ==
  \A f \in Memos : Writers(f) # {} => ~PartiallyWritten(cache[f])

\* what the code does instead: a lookup that meets a partially written file
\* takes it for a miss and publishes nothing
PartialFileIsAMiss ==
  [][(call.op = "run" /\ workers[call.w].pc = "lookup"
        /\ PartiallyWritten(cache[workers[call.w].file])
        /\ workers'[call.w].pc # "lookup")
      => (workers'[call.w].pc = "probe" /\ queue' = queue)]_vars

(***************************************************************************)
(* Properties of the waveform cache (checked under SpecWaveform).          *)
(***************************************************************************)
\* C26: extract_waveform returns a cached waveform only if the cache entry was
\* produced from the same source audio file at its current modification time
\* (its current content) and at the requested resolution; for any other file,
\* file version or resolution it re-extracts from the audio.
WaveformCacheKeyed ==
  (call.op = "extract_waveform" /\ call.from_cache) =>
    /\ call.result.file = call.file
    /\ call.result.version = call.version
    /\ call.result.resolution = call.resolution

\* a cached waveform of the previous content of the file is returned
StaleWaveformReturned ==
  /\ call.op = "extract_waveform" /\ call.from_cache
  /\ call.result.file = call.file /\ call.result.version < call.version

\* the cached waveform of another file of the same stem is returned
OtherFileWaveformReturned ==
  /\ call.op = "extract_waveform" /\ call.from_cache
  /\ call.result.file # call.file

(***************************************************************************)
(* Properties of load_memo (checked under SpecLoad).                       *)
(***************************************************************************)
\* this step is the end of a load_memo that returns True
LoadSucceeds ==
  /\ call' # call /\ call'.op = "load_memo" /\ call'.returned
  /\ mainpc = "load_memo_wait" => call.ok

\* the viewport is reset and the waveform extracted at the resolution of tier 0
LoadedAtTierZero ==
  /\ zoom_level' = R(1) /\ pan_offset' = R(0)
  /\ current_memo' # NoMemo
  /\ waveform_data' = current_memo'
  /\ waveform_widget' \in {NoWaveform, Waveform(current_memo', resolutions[1])}

LoadMemoStep ==
  LoadSucceeds =>
    /\ LoadedAtTierZero
    /\ OneWorkerDispatched(current_memo', hop_lengths[1])

\* C21: every successful load_memo leaves the viewport at zoom 1.0 and pan 0.0,
\* cancels and awaits any worker of the previous memo first, extracts the
\* waveform at the resolution of tier 0 (1014) and dispatches exactly one new
\* worker for the new file with hop length 1024, which then computes alone.
LoadMemoDispatchesOne == [][LoadMemoStep]_vars

\* the same with "the worker the controller tracks" for "any worker"
TrackedLoadMemoStep ==
  /\ LoadSucceeds =>
       /\ LoadedAtTierZero
       /\ ~worker_is_running(Cur)
       /\ spectrogram_worker' # 0
       /\ workers'[spectrogram_worker'] = NewWorker(current_memo', hop_lengths[1])
       /\ \A w \in WorkerIds \ {spectrogram_worker'} :
            workers'[w] \in {workers[w], NoWorker}
  /\ (mainpc = "idle" /\ mainpc' = "load_memo_wait") =>
       /\ workers'[spectrogram_worker].cancelled
       /\ \A w \in WorkerIds : workers'[w].pc = workers[w].pc

LoadMemoDispatchesOneTracked == [][TrackedLoadMemoStep]_vars

\* this step belongs to a load_memo whose file the player cannot load
FailedLoadStep ==
  \/ call' # call /\ call'.op = "load_memo" /\ ~call'.ok
  \/ mainpc = "load_memo_wait" /\ call' # call /\ ~call.ok

FailedLoadChangesNothing ==
  FailedLoadStep =>
    /\ UNCHANGED <<current_memo, zoom_level, pan_offset, waveform_data,
                   waveform_widget, spectrogram, spectrogram_worker>>
    /\ \A w \in WorkerIds : workers'[w].cancelled = workers[w].cancelled

\* C29: a load_memo that fails (the player cannot load the file, it returns
\* False) leaves the current memo, zoom and pan, the displayed waveform and
\* spectrogram and any spectrogram computation of the previous memo that is in
\* flight as they were before the call.
FailedLoadLeavesState == [][FailedLoadChangesNothing]_vars

\* what a failed load leaves behind: the surface loading, its worker cancelled
\* and gone without a signal, nothing queued
FailedLoadLeft ==
  /\ call.op = "load_memo" /\ call.returned /\ mainpc = "idle"
  /\ spectrogram.is_loading /\ queue = <<>>
  /\ \A w \in WorkerIds : ~isRunning(workers[w])
  /\ spectrogram_worker # 0 /\ workers[spectrogram_worker].reason = "cancelled"

(***************************************************************************)
(* Properties of what the surfaces show (checked under Spec).              *)
(***************************************************************************)
\* a memo is loaded, the GUI thread is idle, no worker thread is alive and no
\* completion waits in the event queue
Quiescent ==
  /\ current_memo # NoMemo /\ mainpc = "idle" /\ queue = <<>>
  /\ \A w \in WorkerIds : ~isRunning(workers[w])

\* C27: whenever a memo is loaded, no worker is running and no completion is
\* pending, the data shown matches the current tier of the viewport: the hop
\* length of the spectrogram last applied and the resolution of the waveform
\* last applied are the recommended ones for the current zoom, after any
\* sequence of set_zoom, set_pan and reset (the double-click reset included).
ShownMatchesTier ==
  Quiescent =>
    /\ spectrogram.data # NoData =>
         spectrogram.data.hop = get_recommended_hop_length(zoom_level)
    /\ waveform_widget # NoWaveform =>
         waveform_widget.resolution = get_recommended_resolution(zoom_level)

\* after a double-click reset from tier 1: zoom 1.0 with the data of tier 1 shown
ResetKeepsOldTier ==
  /\ Quiescent /\ zoom_level = R(1)
  /\ spectrogram.data = Spectrogram(current_memo, hop_lengths[2])
  /\ waveform_widget = Waveform(current_memo, resolutions[2])

\* a dispatched worker is running, or a completion is still to be delivered,
\* or the GUI thread is inside a handler that is about to dispatch
InFlight ==
  \/ \E w \in WorkerIds : isRunning(workers[w])
  \/ queue # <<>>
  \/ mainpc # "idle"

\* C28: the loading state of the spectrogram surface tracks the computation in
\* flight: it is true only while a dispatched worker is running or its
\* completion is still to be delivered, and every loading state is eventually
\* followed by the loading state being false, also when the worker is
\* cancelled by a memo load, a failed memo load or a tier change.
LoadingTracksComputation ==
  /\ [](spectrogram.is_loading => InFlight)
  /\ spectrogram.is_loading ~> ~spectrogram.is_loading

\* the surface is loading and nothing is in flight
LoadingWithNothingInFlight ==
  spectrogram.is_loading /\ ~InFlight /\ mainpc = "idle"

(***************************************************************************)
(* Properties of the shared spectrogram surface (checked under SpecShared).*)
(***************************************************************************)
\* a recording is active before and after this step
DuringRecording ==
  /\ is_active(RecCur)
  /\ recorderState' \in {"Recording", "Paused"}

SurfaceStaysLive ==
  DuringRecording =>
    /\ spectrogram'.data # spectrogram.data =>
         spectrogram'.data = LiveMatrix(spectrogram_buffer')
    /\ spectrogram.is_recording => spectrogram'.is_recording

\* C30: while a recording is active the shared spectrogram surface shows only
\* live data: every set_spectrogram_data between recording start and recording
\* stop comes from the live slice buffer of RecordingController, never from a
\* worker result or failure handler of PlaybackController that completes during
\* the recording, and the recording mode of the surface is not reset by the
\* playback side.
SurfaceLiveWhileRecording == [][SurfaceStaysLive]_vars

\* during a recording the surface shows the spectrogram of a memo
MemoShownWhileRecording ==
  /\ is_active(RecCur) /\ spectrogram.is_recording
  /\ spectrogram_buffer # <<>>
  /\ spectrogram.data \in {Spectrogram(f, hop_lengths[1]) : f \in Memos}

\* during a recording the playback side has reset the recording mode
RecordingModeLost ==
  /\ is_active(RecCur) /\ ~spectrogram.is_recording
  /\ spectrogram_buffer # <<>> /\ spectrogram.data = NoData

====
